---- MODULE Spec2Model ----
(***************************************************************************)
(* ATOgen: the entity model of an Air Tasking Order (app/models.py), its   *)
(* loaders (from_dict), ATO.validate, ATO.clone and the text exporter      *)
(* (app/exporter.py), the JSON store (app/storage.py) and the handlers of  *)
(* the editor (streamlit_app.py).                                          *)
(*                                                                         *)
(* Python values.  A str is a TLA+ string; its methods are computed        *)
(* character by character (SubSeq on a string yields its characters).      *)
(* None is the distinguished value None below, which no str of the model   *)
(* equals.  A dict is a function from its keys; a dataclass instance is a  *)
(* record of its fields; a list is a sequence.  A raised exception is the  *)
(* record [exc |-> <name>].                                                *)
(***************************************************************************)
EXTENDS Integers, Sequences, FiniteSets, TLC

VARIABLES
    obj,      \* the entity at hand, [kind, val]: the self or the argument
              \* of the calls on an entity, and what the last load returned
    data,     \* the dict handed to the last from_dict, as it was handed
    after,    \* that dict when the call was over
    ret,      \* the entity the last from_dict or clone returned, [kind, val]
    errors,   \* the list the last ATO.validate returned
    text,     \* the str the last export_ato_to_text returned
    exc,      \* the exception the last call raised, "" when it returned
    op,       \* the last call
    year,     \* datetime.utcnow().year as the last ATO.validate read it
    store,    \* the JSON file of ATOStorage: a list of ATO dicts
    editor_data,        \* st.session_state.editor_data
    view,               \* st.session_state.view
    editor_step,        \* st.session_state.editor_step
    validation_errors,  \* st.session_state.validation_errors
    flash,              \* st.session_state.flash
    disk,     \* what storage_path holds: "absent" (no file), "empty" (a file
              \* of zero bytes) or "json" (the JSON text of the list `store`)
    opened,   \* what ATOStorage.__init__ found there, "" before it ran
    uses,     \* the calls begun on the ATOStorage so far (counted to MaxUses)
    calls,    \* for each caller the call of ATOStorage it is in: its
              \* arguments and the list its _read returned
    returned, \* what the last load_all or get returned
    log,      \* for each identifier what the last upsert or delete left of it
    overlap   \* a call began while another caller was in one

\* the state of the editor (streamlit_app.py) and of its store
editorVars == <<store, editor_data, view, editor_step, validation_errors, flash>>

\* the state of the callers of ATOStorage (app/storage.py)
callVars == <<disk, opened, uses, calls, returned, log, overlap>>

vars == <<obj, data, after, ret, errors, text, exc, op, year,
          store, editor_data, view, editor_step, validation_errors, flash,
          disk, opened, uses, calls, returned, log, overlap>>

---------------------------------------------------------------------------
(* str and None *)

None == "<None>"

IsStr(v) == v # None

\* bool(v) for a str or None
Truthy(v) == v # None /\ v # ""

\* a or b
Or(a, b) == IF Truthy(a) THEN a ELSE b

\* d.get(k, dflt); d.get(k) is Get(d, k, None)
Get(d, k, dflt) == IF k \in DOMAIN d THEN d[k] ELSE dflt

\* d.setdefault(k, v), as the dict it leaves behind
SetDefault(d, k, v) ==
    IF k \in DOMAIN d THEN d
    ELSE [x \in DOMAIN d \cup {k} |-> IF x = k THEN v ELSE d[x]]

\* {**d, k: v}
With(d, k, v) == [x \in DOMAIN d \cup {k} |-> IF x = k THEN v ELSE d[x]]

Ch(s, i) == SubSeq(s, i, i)

LowerCase == "abcdefghijklmnopqrstuvwxyz"
UpperCase == "ABCDEFGHIJKLMNOPQRSTUVWXYZ"
Digits == {"0", "1", "2", "3", "4", "5", "6", "7", "8", "9"}
Whitespace == {" ", "\t", "\n", "\r", "\f"}

\* the upper-case letter of each lower-case letter
UpperOf ==
    [c \in {Ch(LowerCase, i) : i \in 1..Len(LowerCase)} |->
        Ch(UpperCase, CHOOSE i \in 1..Len(LowerCase) : Ch(LowerCase, i) = c)]

UpperChar(c) == IF c \in DOMAIN UpperOf THEN UpperOf[c] ELSE c

\* str(v), also what an f-string puts for {v}
Str(v) == IF v = None THEN "None" ELSE v

\* s.upper()
RECURSIVE Upper(_)
Upper(s) == IF s = "" THEN "" ELSE UpperChar(Ch(s, 1)) \o Upper(Tail(s))

RECURSIVE LStrip(_)
LStrip(s) ==
    IF s # "" /\ Ch(s, 1) \in Whitespace THEN LStrip(Tail(s)) ELSE s

RECURSIVE RStrip(_)
RStrip(s) ==
    IF s # "" /\ Ch(s, Len(s)) \in Whitespace
    THEN RStrip(SubSeq(s, 1, Len(s) - 1)) ELSE s

\* s.strip()
Strip(s) == RStrip(LStrip(s))

\* s.isdigit()
IsDigit(s) == s # "" /\ \A i \in 1..Len(s) : Ch(s, i) \in Digits

\* sep.join(parts)
RECURSIVE Join(_, _)
Join(sep, parts) ==
    IF parts = <<>> THEN ""
    ELSE IF Len(parts) = 1 THEN parts[1]
    ELSE parts[1] \o sep \o Join(sep, Tail(parts))

\* the concatenation of a sequence of lists
RECURSIVE Flatten(_)
Flatten(xss) == IF xss = <<>> THEN <<>> ELSE xss[1] \o Flatten(Tail(xss))

---------------------------------------------------------------------------
(* Exceptions and dataclass construction *)

Raise(name) == [exc |-> name]

Raised(r) == "exc" \in DOMAIN r

AnyRaised(rs) == \E i \in 1..Len(rs) : Raised(rs[i])

FirstRaised(rs) == rs[CHOOSE i \in 1..Len(rs) : Raised(rs[i])]

\* cls(**kwargs) of a dataclass whose fields and defaults are `defaults`:
\* an unexpected keyword argument is a TypeError
Construct(defaults, kwargs) ==
    IF DOMAIN kwargs \subseteq DOMAIN defaults
    THEN [k \in DOMAIN defaults |->
             IF k \in DOMAIN kwargs THEN kwargs[k] ELSE defaults[k]]
    ELSE Raise("TypeError")

\* dataclasses.asdict of a dataclass of scalar fields
AsDict(e) == [k \in DOMAIN e |-> e[k]]

---------------------------------------------------------------------------
(* Header *)

Header ==
    [operation_identification_data |-> "",
     msg_text_format_identifier |-> "ATO",
     msg_originator |-> "",
     msg_serial |-> "",
     msg_month |-> "JAN",
     msg_qualifier |-> "",
     acknowledgement_required |-> "NO",
     timeframe_from |-> "",
     timeframe_to |-> "",
     heading |-> "TASKING"]

Header_to_dict(self) == AsDict(self)

MonthAbbr ==
    <<"JAN", "FEB", "MAR", "APR", "MAY", "JUN",
      "JUL", "AUG", "SEP", "OCT", "NOV", "DEC">>

IsLeap(y) == y % 4 = 0 /\ (y % 100 # 0 \/ y % 400 = 0)

DaysInMonth(y, m) ==
    IF m = 2 THEN (IF IsLeap(y) THEN 29 ELSE 28)
    ELSE IF m \in {4, 6, 9, 11} THEN 30 ELSE 31

DigitVal(c) == CHOOSE n \in 0..9 : ToString(n) = c

\* int(s) of a str of digits
RECURSIVE ToInt(_)
ToInt(s) ==
    IF s = "" THEN 0
    ELSE 10 * ToInt(SubSeq(s, 1, Len(s) - 1)) + DigitVal(Ch(s, Len(s)))

\* datetime.fromisoformat(value) accepts: YYYY-MM-DD, then optionally a
\* one-character separator and HH:MM or HH:MM:SS, all fields in range
IsoOk(v) ==
    /\ Len(v) \in {10, 16, 19}
    /\ IsDigit(SubSeq(v, 1, 4)) /\ Ch(v, 5) = "-"
    /\ IsDigit(SubSeq(v, 6, 7)) /\ Ch(v, 8) = "-"
    /\ IsDigit(SubSeq(v, 9, 10))
    /\ ToInt(SubSeq(v, 1, 4)) >= 1
    /\ ToInt(SubSeq(v, 6, 7)) \in 1..12
    /\ ToInt(SubSeq(v, 9, 10)) \in
           1..DaysInMonth(ToInt(SubSeq(v, 1, 4)), ToInt(SubSeq(v, 6, 7)))
    /\ Len(v) >= 16 =>
           /\ IsDigit(SubSeq(v, 12, 13)) /\ Ch(v, 14) = ":"
           /\ IsDigit(SubSeq(v, 15, 16))
           /\ ToInt(SubSeq(v, 12, 13)) \in 0..23
           /\ ToInt(SubSeq(v, 15, 16)) \in 0..59
    /\ Len(v) = 19 =>
           /\ Ch(v, 17) = ":" /\ IsDigit(SubSeq(v, 18, 19))
           /\ ToInt(SubSeq(v, 18, 19)) \in 0..59

\* datetime.fromisoformat(v).strftime("%d%H%MZ%b%Y").upper()
IsoToDtg(v) ==
    SubSeq(v, 9, 10)
    \o (IF Len(v) >= 16 THEN SubSeq(v, 12, 13) \o SubSeq(v, 15, 16) ELSE "0000")
    \o "Z" \o MonthAbbr[ToInt(SubSeq(v, 6, 7))] \o SubSeq(v, 1, 4)

\* _convert_iso that gives up a value it cannot convert
_convert_iso_or_blank(value) ==
    IF ~Truthy(value) THEN ""
    ELSE IF IsoOk(value) THEN IsoToDtg(value)
    ELSE ""

_convert_iso(value) ==
    IF ~Truthy(value) THEN ""
    ELSE IF IsoOk(value) THEN IsoToDtg(value)
    ELSE value

Header_from_dict(d) ==
    IF DOMAIN d = {} THEN Header
    ELSE
    [operation_identification_data |->
         Get(d, "operation_identification_data", Get(d, "operation_name", "")),
     msg_text_format_identifier |->
         Get(d, "msg_text_format_identifier", Get(d, "title", "ATO")),
     msg_originator |-> Get(d, "msg_originator", Get(d, "originating_unit", "")),
     msg_serial |-> Get(d, "msg_serial", ""),
     msg_month |-> Upper(Or(Get(d, "msg_month", None), "JAN")),
     msg_qualifier |-> Get(d, "msg_qualifier", ""),
     acknowledgement_required |->
         Upper(Or(Get(d, "acknowledgement_required", "NO"), "NO")),
     timeframe_from |->
         Or(Get(d, "timeframe_from", None),
            _convert_iso(Get(d, "effective_time_utc", None))),
     timeframe_to |->
         Or(Get(d, "timeframe_to", None),
            _convert_iso(Get(d, "expiry_time_utc", None))),
     heading |-> Get(d, "heading", "TASKING")]

---------------------------------------------------------------------------
(* Allotment *)

\* Allotment() whose default_factory drew the identifier u
Allotment(u) ==
    [id |-> u,
     unit_designator |-> "",
     icao_base_code |-> "",
     asset_count |-> "",
     aircraft_type_model |-> ""]

Allotment_to_dict(self) == AsDict(self)

\* str(raw).strip() if raw not in (None, "") else ""
TrimmedText(raw) == IF raw \notin {None, ""} THEN Strip(raw) ELSE ""

\* Allotment.from_dict that draws a new identifier for every record
Allotment_from_dict_new_id(d, u) ==
    [id |-> u,
     unit_designator |->
         Or(Get(d, "unit_designator", None), Get(d, "resource_name", "")),
     icao_base_code |->
         Upper(Or(Or(Get(d, "icao_base_code", None), Get(d, "icao", "")), "")),
     asset_count |->
         TrimmedText(Or(Or(Get(d, "asset_count", None),
                           Get(d, "count_of_assets", None)),
                        Get(d, "quantity", ""))),
     aircraft_type_model |->
         TrimmedText(Or(Or(Get(d, "aircraft_type_model", None),
                           Get(d, "aircraft_type", None)),
                        Get(d, "mission", "")))]

\* u is the identifier uuid.uuid4() returns during the call
Allotment_from_dict(d, u) ==
    IF DOMAIN d = {} THEN Allotment(u)
    ELSE
    LET dd == IF "id" \notin DOMAIN d THEN With(d, "id", u) ELSE d
    IN  [id |-> Get(dd, "id", u),
         unit_designator |->
             Or(Get(dd, "unit_designator", None), Get(dd, "resource_name", "")),
         icao_base_code |->
             Upper(Or(Or(Get(dd, "icao_base_code", None), Get(dd, "icao", "")), "")),
         asset_count |->
             TrimmedText(Or(Or(Get(dd, "asset_count", None),
                               Get(dd, "count_of_assets", None)),
                            Get(dd, "quantity", ""))),
         aircraft_type_model |->
             TrimmedText(Or(Or(Get(dd, "aircraft_type_model", None),
                               Get(dd, "aircraft_type", None)),
                            Get(dd, "mission", "")))]

---------------------------------------------------------------------------
(* The four sub-segments of a task unit *)

AircraftMissionData ==
    [mission_number |-> "",
     amc_mission_number |-> "",
     package_identification |-> "",
     mission_commander |-> "",
     primary_mission_type |-> "",
     secondary_mission_type |-> "",
     alert_status |-> "",
     icao_departure_location |-> "",
     icao_recovery_base |-> ""]

IndividualAircraftMissionData ==
    [number_of_aircraft |-> "",
     aircraft_call_sign |-> "",
     primary_configuration_code |-> "",
     secondary_configuration_code |-> "",
     iff_mode1 |-> "",
     iff_mode2 |-> "",
     iff_mode3 |-> ""]

GroundTargetLocation ==
    [designator |-> "",
     day_time_month_tasked |-> "",
     not_earlier_than |-> "",
     not_later_than |-> "",
     target_facility_name |-> "",
     target_identifier |-> "",
     target_type |-> "",
     dmpi_description |-> "",
     dmpi_lat_long |-> "",
     geodetic_datum |-> "",
     dmpi_elevation |-> "",
     component_target_identifier |-> ""]

ControlOfAirAssets ==
    [agency_type |-> "",
     call_sign |-> "",
     primary_frequency |-> "",
     secondary_frequency |-> "",
     report_in_point |-> ""]

\* AircraftMissionData.from_dict and its three siblings:
\* if not data: return cls(); return cls(**data)
Segment_from_dict(cls, d) ==
    IF DOMAIN d = {} THEN cls ELSE Construct(cls, d)

---------------------------------------------------------------------------
(* TaskUnit *)

TaskUnit ==
    [allotment_id |-> "",
     amsndat |-> AircraftMissionData,
     msnacft |-> IndividualAircraftMissionData,
     gtgtloc |-> GroundTargetLocation,
     controla |-> ControlOfAirAssets,
     amplification |-> "",
     narrative |-> "",
     unit_name |-> "",
     aircraft_type |-> ""]

TaskUnit_to_dict(self) ==
    [allotment_id |-> self.allotment_id,
     amsndat |-> AsDict(self.amsndat),
     msnacft |-> AsDict(self.msnacft),
     gtgtloc |-> AsDict(self.gtgtloc),
     controla |-> AsDict(self.controla),
     amplification |-> self.amplification,
     narrative |-> self.narrative,
     unit_name |-> self.unit_name,
     aircraft_type |-> self.aircraft_type]

\* data.get(seg) or {}
SegmentData(d, seg) ==
    IF seg \in DOMAIN d /\ DOMAIN d[seg] # {} THEN d[seg] ELSE <<>>

\* the backward-compatibility step left out
FillLegacy_never(d, seg_data, legacy, leaf) == seg_data

\* the backward-compatibility step writing over the current value
FillLegacy_overwrite(d, seg_data, legacy, leaf) ==
    IF legacy \in DOMAIN d THEN With(seg_data, leaf, d[legacy])
    ELSE seg_data

\* if legacy in data: seg_data.setdefault(leaf, data.get(legacy, ""))
FillLegacy(d, seg_data, legacy, leaf) ==
    IF legacy \in DOMAIN d THEN SetDefault(seg_data, leaf, d[legacy])
    ELSE seg_data

\* the four segment dicts after the backward-compatibility block
amsndat_data(d) ==
    FillLegacy(d, FillLegacy(d, SegmentData(d, "amsndat"),
                             "mission_type", "primary_mission_type"),
               "takeoff_time_utc", "mission_number")

msnacft_data(d) ==
    FillLegacy(d, FillLegacy(d, FillLegacy(d, SegmentData(d, "msnacft"),
                                           "callsign", "aircraft_call_sign"),
                             "tail_numbers", "primary_configuration_code"),
               "iff_code", "iff_mode3")

gtgtloc_data(d) ==
    FillLegacy(d, SegmentData(d, "gtgtloc"), "target", "target_facility_name")

controla_data(d) ==
    FillLegacy(d, SegmentData(d, "controla"), "control_agency", "call_sign")

\* data after: if "remarks" in data: data.setdefault("narrative", ...)
WithRemarks(d) ==
    IF "remarks" \in DOMAIN d THEN SetDefault(d, "narrative", d["remarks"])
    ELSE d

TaskUnit_from_dict(d) ==
    IF DOMAIN d = {} THEN TaskUnit
    ELSE
    LET a == Segment_from_dict(AircraftMissionData, amsndat_data(d))
        m == Segment_from_dict(IndividualAircraftMissionData, msnacft_data(d))
        g == Segment_from_dict(GroundTargetLocation, gtgtloc_data(d))
        c == Segment_from_dict(ControlOfAirAssets, controla_data(d))
        dn == WithRemarks(d)
    IN  IF AnyRaised(<<a, m, g, c>>) THEN FirstRaised(<<a, m, g, c>>)
        ELSE
        [allotment_id |->
             Or(Get(d, "allotment_id", None), Get(d, "resource_id", "")),
         amsndat |-> a,
         msnacft |-> m,
         gtgtloc |-> g,
         controla |-> c,
         amplification |-> Or(Get(d, "amplification", Get(d, "ampn", "")), ""),
         narrative |-> Or(Get(dn, "narrative", Get(dn, "remarks", "")), ""),
         unit_name |-> Get(d, "unit_name", ""),
         aircraft_type |-> Get(d, "aircraft_type", "")]

\* the dict d as TaskUnit.from_dict(d) leaves it: a segment dict that was
\* present and non-empty is the object setdefault wrote to
TaskUnit_from_dict_data(d) ==
    IF DOMAIN d = {} THEN d
    ELSE
    LET Seg(k, filled) ==
            IF k \in DOMAIN d /\ DOMAIN d[k] # {} THEN filled ELSE d[k]
    IN  [k \in DOMAIN WithRemarks(d) |->
            IF k = "amsndat" THEN Seg(k, amsndat_data(d))
            ELSE IF k = "msnacft" THEN Seg(k, msnacft_data(d))
            ELSE IF k = "gtgtloc" THEN Seg(k, gtgtloc_data(d))
            ELSE IF k = "controla" THEN Seg(k, controla_data(d))
            ELSE WithRemarks(d)[k]]

---------------------------------------------------------------------------
(* SupportControlEntry, SpinInstruction, Footer *)

SupportControlEntry ==
    [role |-> "", unit |-> "", frequency |-> "", contact |-> "", notes |-> ""]

SpinInstruction == [title |-> "", content |-> ""]

Footer ==
    [classification |-> "", authority |-> "", prepared_by |-> "",
     release_instructions |-> ""]

\* SupportControlEntry.from_dict, SpinInstruction.from_dict,
\* Footer.from_dict: return cls(**data)
Flat_from_dict(cls, d) == Construct(cls, d)

---------------------------------------------------------------------------
(* ATO *)

\* ATO(id=u, name=name)
ATO(u, name) ==
    [id |-> u,
     name |-> name,
     header |-> Header,
     allotments |-> <<>>,
     task_units |-> <<>>,
     support_control |-> <<>>,
     spins |-> <<>>,
     footer |-> Footer]

create_empty(u) == ATO(u, "Nuevo ATO")

ATO_to_dict(self) ==
    [id |-> self.id,
     name |-> self.name,
     header |-> Header_to_dict(self.header),
     allotments |-> [i \in 1..Len(self.allotments) |-> Allotment_to_dict(self.allotments[i])],
     task_units |-> [i \in 1..Len(self.task_units) |-> TaskUnit_to_dict(self.task_units[i])],
     support_control |-> [i \in 1..Len(self.support_control) |-> AsDict(self.support_control[i])],
     spins |-> [i \in 1..Len(self.spins) |-> AsDict(self.spins[i])],
     footer |-> AsDict(self.footer)]

\* us[i] is the identifier uuid.uuid4() returns while the i-th allotment
\* is loaded
ATO_from_dict(d, us) ==
    IF "id" \notin DOMAIN d THEN Raise("KeyError")
    ELSE
    LET al == Get(d, "allotments", <<>>)
        tu == Get(d, "task_units", <<>>)
        sc == Get(d, "support_control", <<>>)
        sp == Get(d, "spins", <<>>)
        tus == [i \in 1..Len(tu) |-> TaskUnit_from_dict(tu[i])]
        scs == [i \in 1..Len(sc) |-> Flat_from_dict(SupportControlEntry, sc[i])]
        sps == [i \in 1..Len(sp) |-> Flat_from_dict(SpinInstruction, sp[i])]
        ft == Flat_from_dict(Footer, Get(d, "footer", <<>>))
        all == tus \o scs \o sps \o <<ft>>
    IN  IF AnyRaised(all) THEN FirstRaised(all)
        ELSE
        [id |-> d["id"],
         name |-> Get(d, "name", "ATO"),
         header |-> Header_from_dict(Get(d, "header", <<>>)),
         allotments |-> [i \in 1..Len(al) |-> Allotment_from_dict(al[i], us[i])],
         task_units |-> tus,
         support_control |-> scs,
         spins |-> sps,
         footer |-> ft]

\* the dict d as ATO.from_dict(d) leaves it: the task-unit dicts are
\* written to, in order, until one of them makes the call raise
ATO_from_dict_data(d) ==
    IF "id" \notin DOMAIN d \/ "task_units" \notin DOMAIN d THEN d
    ELSE
    LET tu == d["task_units"]
        Reached(i) == \A j \in 1..(i - 1) : ~Raised(TaskUnit_from_dict(tu[j]))
    IN  [d EXCEPT !["task_units"] =
            [i \in 1..Len(tu) |->
                IF Reached(i) THEN TaskUnit_from_dict_data(tu[i]) ELSE tu[i]]]

\* u is the identifier uuid.uuid4() returns for the copy
clone(self, u, us) ==
    LET d == ATO_to_dict(self)
    IN  ATO_from_dict([d EXCEPT !["id"] = u, !["name"] = Str(d.name) \o " (Copia)"], us)

---------------------------------------------------------------------------
(* app/storage.py: ATOStorage over the list of dicts its JSON file holds *)

Uuid(n) == "uuid-" \o ToString(n)

\* str(uuid.uuid4()): an identifier that nothing holds yet.  Identifiers are
\* opaque, so the first one that `used` lacks stands for any of them.
FreshUuid(used) ==
    Uuid(CHOOSE n \in 1..(Cardinality(used) + 1) :
             /\ Uuid(n) \notin used
             /\ \A m \in 1..(n - 1) : Uuid(m) \in used)

\* n successive results of uuid.uuid4()
RECURSIVE FreshUuids(_, _)
FreshUuids(used, n) ==
    IF n = 0 THEN <<>>
    ELSE <<FreshUuid(used)>> \o FreshUuids(used \cup {FreshUuid(used)}, n - 1)

\* the identifiers a persisted ATO dict holds
IdsOfDict(d) ==
    (IF "id" \in DOMAIN d THEN {d["id"]} ELSE {})
    \cup {Get(Get(d, "allotments", <<>>)[i], "id", None) :
              i \in 1..Len(Get(d, "allotments", <<>>))}

IdsOfFile(file) == UNION {IdsOfDict(file[i]) : i \in 1..Len(file)}

\* ATOStorage.load_all: [atos |-> the list of ATOs], or the exception a
\* from_dict raised
load_all(file, used) ==
    LET al(i) == Get(file[i], "allotments", <<>>)
        before(i) == Len(Flatten([j \in 1..(i - 1) |-> al(j)]))
        Drawn(us) ==
            [i \in 1..Len(file) |->
                ATO_from_dict(file[i],
                              SubSeq(us, before(i) + 1, before(i) + Len(al(i))))]
        Result(atos) ==
            IF AnyRaised(atos) THEN FirstRaised(atos) ELSE [atos |-> atos]
    IN  Result(Drawn(FreshUuids(used \cup IdsOfFile(file), before(Len(file) + 1))))

\* ATOStorage.save_all: the payload it writes
save_all(atos) == [i \in 1..Len(atos) |-> ATO_to_dict(atos[i])]

\* the first place of atos whose ATO has the identifier ato_id, 0 if none
IndexOfId(atos, ato_id) ==
    IF \E i \in 1..Len(atos) : atos[i].id = ato_id
    THEN CHOOSE i \in 1..Len(atos) :
             /\ atos[i].id = ato_id
             /\ \A j \in 1..(i - 1) : atos[j].id # ato_id
    ELSE 0

\* ATOStorage.upsert that never replaces
upsert_append_only(file, ato, used) ==
    LET Then(r) ==
            IF Raised(r) THEN r ELSE [file |-> save_all(Append(r.atos, ato))]
    IN  Then(load_all(file, used))

\* ATOStorage.upsert: [file |-> the file it leaves], or the exception
\* load_all raised
upsert(file, ato, used) ==
    LET Found(atos, idx) ==
            IF idx # 0 THEN [atos EXCEPT ![idx] = ato] ELSE Append(atos, ato)
        Then(r) ==
            IF Raised(r) THEN r
            ELSE [file |-> save_all(Found(r.atos, IndexOfId(r.atos, ato.id)))]
    IN  Then(load_all(file, used))

\* ATOStorage.delete: [file |-> the file it leaves]
delete(file, ato_id, used) ==
    LET Keep(ato) == ato.id # ato_id
        Then(r) ==
            IF Raised(r) THEN r ELSE [file |-> save_all(SelectSeq(r.atos, Keep))]
    IN  Then(load_all(file, used))

\* the None of an Optional[ATO] or of an unset dict
NoneObj == [is_none |-> TRUE]

\* ATOStorage.get: the first ATO with that identifier, or None
get(file, ato_id, used) ==
    LET Found(atos, idx) == IF idx # 0 THEN atos[idx] ELSE NoneObj
        Then(r) ==
            IF Raised(r) THEN r ELSE Found(r.atos, IndexOfId(r.atos, ato_id))
    IN  Then(load_all(file, used))

---------------------------------------------------------------------------
(* datetime.strptime(value, "%d%H%MZ%b%Y") *)

NonZeroDigits == Digits \ {"0"}

\* the regular expressions _strptime builds for %d, %H and %M
MatchD(p) ==
    \/ /\ Len(p) = 2
       /\ \/ Ch(p, 1) = "3" /\ Ch(p, 2) \in {"0", "1"}
          \/ Ch(p, 1) \in {"1", "2"} /\ Ch(p, 2) \in Digits
          \/ Ch(p, 1) \in {"0", " "} /\ Ch(p, 2) \in NonZeroDigits
    \/ Len(p) = 1 /\ p \in NonZeroDigits

MatchH(p) ==
    \/ /\ Len(p) = 2
       /\ \/ Ch(p, 1) = "2" /\ Ch(p, 2) \in {"0", "1", "2", "3"}
          \/ Ch(p, 1) \in {"0", "1"} /\ Ch(p, 2) \in Digits
    \/ Len(p) = 1 /\ p \in Digits

MatchM(p) ==
    \/ Len(p) = 2 /\ Ch(p, 1) \in {"0", "1", "2", "3", "4", "5"} /\ Ch(p, 2) \in Digits
    \/ Len(p) = 1 /\ p \in Digits

\* the widths of %d, %H, %M in the order the regex engine tries them
Splits ==
    <<<<2, 2, 2>>, <<2, 2, 1>>, <<2, 1, 2>>, <<2, 1, 1>>,
      <<1, 2, 2>>, <<1, 2, 1>>, <<1, 1, 2>>, <<1, 1, 1>>>>

\* the pattern matches all of v with the widths w (it ignores case)
SplitMatches(v, w) ==
    LET k == w[1] + w[2] + w[3]
    IN  /\ Len(v) = k + 8
        /\ MatchD(SubSeq(v, 1, w[1]))
        /\ MatchH(SubSeq(v, w[1] + 1, w[1] + w[2]))
        /\ MatchM(SubSeq(v, w[1] + w[2] + 1, k))
        /\ Upper(Ch(v, k + 1)) = "Z"
        /\ \E i \in 1..12 : MonthAbbr[i] = Upper(SubSeq(v, k + 2, k + 4))
        /\ IsDigit(SubSeq(v, k + 5, k + 8))

\* strptime returns (no ValueError): the pattern matches and the fields
\* of the first match make a date
StrptimeOk(v) ==
    /\ \E i \in 1..Len(Splits) : SplitMatches(v, Splits[i])
    /\ LET w == Splits[CHOOSE i \in 1..Len(Splits) :
                         /\ SplitMatches(v, Splits[i])
                         /\ \A j \in 1..(i - 1) : ~SplitMatches(v, Splits[j])]
           k == w[1] + w[2] + w[3]
           day == ToInt(Strip(SubSeq(v, 1, w[1])))
           month == CHOOSE i \in 1..12 : MonthAbbr[i] = Upper(SubSeq(v, k + 2, k + 4))
           yr == ToInt(SubSeq(v, k + 5, k + 8))
       IN  yr >= 1 /\ day <= DaysInMonth(yr, month)

\* _validate_short_dtg(value), y being datetime.utcnow().year
_validate_short_dtg(value, y) ==
    IF ~Truthy(value) THEN FALSE
    ELSE StrptimeOk(Upper(Strip(value)) \o ToString(y))

---------------------------------------------------------------------------
(* ATO.validate.  The messages are the source's, their accented letters  *)
(* written without the accent.                                           *)

\* the codes of MISSION_TYPE_OPTIONS
MISSION_TYPE_OPTIONS ==
    {"AAW", "ABC", "ADMLF", "AEW", "AH", "AI", "AIREV", "AMC", "AR", "ASARS",
     "ASW", "ATK", "BAI", "BCAP", "BRCAP", "CAP", "CAS", "CDS", "CHAFF", "CHANL",
     "CINT", "CMD", "CNTNG", "COMM", "CSAR", "CURFT", "DCA", "DSUPR", "DVSPT", "EA",
     "ELECT", "EO", "ES", "ESC", "EW", "EWS", "EXER", "FAC", "FCAP", "FCF",
     "GAAW", "GABC", "GAEW", "GAH", "GAIR", "GAML", "GAR", "GASW", "GATK", "GBAI",
     "GBAR", "GCAP", "GCAS", "GCOM", "GDALT", "GESC", "GEW", "GFAC", "GILL", "GINT",
     "GJCP", "GMINL", "GMINS", "GOAS", "GOCA", "GREC", "GSA", "GSAL", "GSAR", "GSCP",
     "GSCR", "GSEC", "GSOF", "GSPT", "GSRI", "GSUP", "GTAL", "GTPQ", "GWUC", "HEL",
     "HLO", "HVY", "ICAP", "ILLUM", "IMAGE", "IMINT", "INT", "JAATT", "JCP", "JSTARS",
     "LAPES", "MEDEV", "MINL", "NSPT", "OAS", "OBSFL", "OCA", "OTR", "PCAP", "PER",
     "PG", "PHOTO", "PJCRE", "PJCRI", "PSYCH", "RCAS", "RDREC", "REC", "RES", "RSC",
     "RSCAP", "RSCPE", "SA", "SAAM", "SADP", "SAL", "SAR", "SCR", "SEAD", "SEC",
     "SLAR", "SLR", "SMSN", "SOF", "SOP", "SRI", "SUCAP", "SUPT", "SWEP", "TAC",
     "TACA", "TADP", "TAL", "TALD", "TPQ", "TRNG", "TRNSF", "TV", "UTLTY", "UW",
     "VIPLF", "VIS", "WAS", "WW", "WX", "WXREC", "XAAW", "XABC", "XAEW", "XAH",
     "XAME", "XAML", "XAR", "XASW", "XATK", "XBAI", "XBAR", "XCAP", "XCAS", "XCOM",
     "XDCA", "XESC", "XEW", "XFAC", "XILL", "XINT", "XJCP", "XMINL", "XMINS", "XOAS",
     "XOCA", "XREC", "XSA", "XSAR", "XSCP", "XSCR", "XSEC", "XSOF", "XSRI", "XSUP",
     "XTPQ", "XWW"}

Months == {MonthAbbr[i] : i \in 1..12}

\* errors.append(msg) under `if cond`
Check(cond, msg) == IF cond THEN <<msg>> ELSE <<>>

\* the block of the two header dates reporting a missing date as malformed
TimeframeErrors_one_message(label, value) ==
    Check(~Truthy(value) \/ ~StrptimeOk(value),
          "La fecha '" \o label
          \o "' debe estar en formato DDHHmmZMMMYYYY (ej. 060600ZMAR2002).")

\* the block of the two header dates
TimeframeErrors(label, value) ==
    IF Truthy(value)
    THEN Check(~StrptimeOk(value),
               "La fecha '" \o label
               \o "' debe estar en formato DDHHmmZMMMYYYY (ej. 060600ZMAR2002).")
    ELSE <<"La fecha '" \o label \o "' es obligatoria.">>

\* the header block comparing the acknowledgement flag as written
HeaderErrors_exact_flag(self) ==
    Check(Strip(self.name) = "", "El nombre del ATO es obligatorio.")
    \o Check(Strip(self.header.operation_identification_data) = "",
             "El campo OPER es obligatorio en el header.")
    \o Check(Strip(self.header.msg_text_format_identifier) = "",
             "El campo MSGID - Text Format Identifier es obligatorio.")
    \o Check(Strip(self.header.msg_originator) = "",
             "El campo MSGID - Originator es obligatorio.")
    \o Check(Strip(self.header.msg_serial) = "",
             "El campo MSGID - Message Serial es obligatorio.")
    \o Check(Upper(self.header.msg_month) \notin Months,
             "El campo MSGID - Month debe seleccionarse de la lista proporcionada.")
    \o Check(self.header.acknowledgement_required \notin {"YES", "NO"},
             "El campo AKNLDG debe ser 'YES' o 'NO'.")
    \o TimeframeErrors("TIMEFRAM - FROM", self.header.timeframe_from)
    \o TimeframeErrors("TIMEFRAM - TO", self.header.timeframe_to)

HeaderErrors(self) ==
    Check(Strip(self.name) = "", "El nombre del ATO es obligatorio.")
    \o Check(Strip(self.header.operation_identification_data) = "",
             "El campo OPER es obligatorio en el header.")
    \o Check(Strip(self.header.msg_text_format_identifier) = "",
             "El campo MSGID - Text Format Identifier es obligatorio.")
    \o Check(Strip(self.header.msg_originator) = "",
             "El campo MSGID - Originator es obligatorio.")
    \o Check(Strip(self.header.msg_serial) = "",
             "El campo MSGID - Message Serial es obligatorio.")
    \o Check(Upper(self.header.msg_month) \notin Months,
             "El campo MSGID - Month debe seleccionarse de la lista proporcionada.")
    \o Check(Upper(self.header.acknowledgement_required) \notin {"YES", "NO"},
             "El campo AKNLDG debe ser 'YES' o 'NO'.")
    \o TimeframeErrors("TIMEFRAM - FROM", self.header.timeframe_from)
    \o TimeframeErrors("TIMEFRAM - TO", self.header.timeframe_to)

\* the body of the loop over the allotments without the check of the case
AllotmentErrors_icao_any_case(allotment, idx) ==
    LET n == ToString(idx)
    IN  Check(Strip(allotment.unit_designator) = "",
              "El Allotment #" \o n \o " requiere UNIT.")
        \o Check(Strip(allotment.icao_base_code) = "",
                 "El Allotment #" \o n \o " requiere ICAO.")
        \o (IF Strip(allotment.asset_count) = ""
            THEN <<"El Allotment #" \o n \o " requiere la cantidad de activos.">>
            ELSE Check(~IsDigit(allotment.asset_count),
                       "El campo COUNT OF ASSETS del Allotment #" \o n
                       \o " debe ser numerico."))
        \o Check(Strip(allotment.aircraft_type_model) = "",
                 "El Allotment #" \o n \o " requiere ACTYP.")

\* the body of the loop over the allotments, idx counting from 1
AllotmentErrors(allotment, idx) ==
    LET n == ToString(idx)
    IN  Check(Strip(allotment.unit_designator) = "",
              "El Allotment #" \o n \o " requiere UNIT.")
        \o (IF Strip(allotment.icao_base_code) = ""
            THEN <<"El Allotment #" \o n \o " requiere ICAO.">>
            ELSE Check(allotment.icao_base_code # Upper(allotment.icao_base_code),
                       "El ICAO del Allotment #" \o n \o " debe estar en mayusculas."))
        \o (IF Strip(allotment.asset_count) = ""
            THEN <<"El Allotment #" \o n \o " requiere la cantidad de activos.">>
            ELSE Check(~IsDigit(allotment.asset_count),
                       "El campo COUNT OF ASSETS del Allotment #" \o n
                       \o " debe ser numerico."))
        \o Check(Strip(allotment.aircraft_type_model) = "",
                 "El Allotment #" \o n \o " requiere ACTYP.")

\* allotment_lookup = {item.id: item for item in self.allotments}, its keys
LookupKeys(allotments) == {allotments[i].id : i \in 1..Len(allotments)}

\* the reference check without the lookup
ReferenceErrors_blank_only(task_unit, keys, idx) ==
    Check(Strip(task_unit.allotment_id) = "",
          "La Task Unit #" \o ToString(idx)
          \o " debe vincularse a un recurso definido en Allotment.")

\* the reference check that opens the loop over the task units
ReferenceErrors(task_unit, keys, idx) ==
    IF Strip(task_unit.allotment_id) = ""
    THEN <<"La Task Unit #" \o ToString(idx)
           \o " debe vincularse a un recurso definido en Allotment.">>
    ELSE Check(task_unit.allotment_id \notin keys,
               "La Task Unit #" \o ToString(idx)
               \o " referencia un Allotment inexistente. Actualiza la seleccion.")

\* the ICAO check without its upper-case branch
IcaoErrors_required_only(label, value, n) ==
    Check(Strip(value) = "",
          "La Task Unit #" \o n \o " requiere un " \o label \o " en AMSNDAT.")

IcaoErrors(label, value, n) ==
    IF Strip(value) = ""
    THEN <<"La Task Unit #" \o n \o " requiere un " \o label \o " en AMSNDAT.">>
    ELSE Check(value # Upper(value),
               "El campo " \o label \o " de la Task Unit #" \o n
               \o " debe estar en mayusculas.")

IffErrors(mode_label, mode_value, n) ==
    Check(Truthy(mode_value) /\ ~IsDigit(mode_value),
          "El campo IFF/SIF " \o mode_label \o " de la Task Unit #" \o n
          \o " debe ser numerico.")

WindowErrors(label, value, n, y) ==
    IF Strip(value) = ""
    THEN <<"La Task Unit #" \o n \o " requiere un valor para " \o label
           \o " en GTGTLOC.">>
    ELSE Check(~_validate_short_dtg(value, y),
               "El campo " \o label \o " de GTGTLOC en la Task Unit #" \o n
               \o " debe tener formato DDHHmmZMMM.")

\* the body of the loop over the task units, idx counting from 1
TaskUnitErrors(task_unit, keys, idx, y) ==
    LET n == ToString(idx)
        amsndat == task_unit.amsndat
        msnacft == task_unit.msnacft
        gtgtloc == task_unit.gtgtloc
        controla == task_unit.controla
    IN  ReferenceErrors(task_unit, keys, idx)
        \o Check(Strip(amsndat.mission_number) = "",
                 "La Task Unit #" \o n \o " requiere un Mission Number en AMSNDAT.")
        \o (IF Strip(amsndat.primary_mission_type) = ""
            THEN <<"La Task Unit #" \o n \o " requiere un Primary Mission Type.">>
            ELSE Check(Upper(amsndat.primary_mission_type) \notin MISSION_TYPE_OPTIONS,
                       "El Primary Mission Type de la Task Unit #" \o n
                       \o " no es valido. Selecciona una opcion de la lista."))
        \o Check(/\ Truthy(amsndat.secondary_mission_type)
                 /\ Upper(amsndat.secondary_mission_type) \notin MISSION_TYPE_OPTIONS,
                 "El Secondary Mission Type de la Task Unit #" \o n
                 \o " no es valido. Selecciona una opcion de la lista.")
        \o IcaoErrors("DEPLOC", amsndat.icao_departure_location, n)
        \o IcaoErrors("ARRLOC", amsndat.icao_recovery_base, n)
        \o (IF Strip(msnacft.number_of_aircraft) = ""
            THEN <<"La Task Unit #" \o n
                   \o " debe indicar NUMBER OF AIRCRAFT en MSNACFT.">>
            ELSE Check(~IsDigit(msnacft.number_of_aircraft),
                       "El campo NUMBER OF AIRCRAFT de la Task Unit #" \o n
                       \o " debe ser numerico."))
        \o Check(Strip(msnacft.aircraft_call_sign) = "",
                 "La Task Unit #" \o n
                 \o " debe incluir un AIRCRAFT CALL SIGN en MSNACFT.")
        \o IffErrors("MODE 1", msnacft.iff_mode1, n)
        \o IffErrors("MODE 2", msnacft.iff_mode2, n)
        \o IffErrors("MODE 3", msnacft.iff_mode3, n)
        \o Check(Upper(gtgtloc.designator) \notin {"P", "S"},
                 "La Task Unit #" \o n
                 \o " debe seleccionar PRIMARY/ALTERNATE DESIGNATOR (P o S).")
        \o WindowErrors("NET", gtgtloc.not_earlier_than, n, y)
        \o WindowErrors("NLT", gtgtloc.not_later_than, n, y)
        \o Check(Upper(controla.agency_type) \notin {"CRC", "AEW"},
                 "La Task Unit #" \o n \o " debe seleccionar CRC o AEW en CONTROLA.")
        \o Check(Strip(controla.call_sign) = "",
                 "La Task Unit #" \o n \o " debe definir CALL SIGN en CONTROLA.")

\* validate that returns at its first violation
validate_first_only(self, y) ==
    LET all == HeaderErrors(self)
               \o Flatten([i \in 1..Len(self.allotments) |->
                               AllotmentErrors(self.allotments[i], i)])
               \o Flatten([i \in 1..Len(self.task_units) |->
                               TaskUnitErrors(self.task_units[i],
                                              LookupKeys(self.allotments), i, y)])
    IN  SubSeq(all, 1, IF all = <<>> THEN 0 ELSE 1)

\* self.validate() when it returns, y being datetime.utcnow().year
validate(self, y) ==
    HeaderErrors(self)
    \o Flatten([i \in 1..Len(self.allotments) |->
                    AllotmentErrors(self.allotments[i], i)])
    \o Flatten([i \in 1..Len(self.task_units) |->
                    TaskUnitErrors(self.task_units[i],
                                   LookupKeys(self.allotments), i, y)])

\* the leaves validate calls a str method on without testing them first:
\* on None the call is an AttributeError
ValidateDereferences(self) ==
    {self.name,
     self.header.operation_identification_data,
     self.header.msg_text_format_identifier,
     self.header.msg_originator,
     self.header.msg_serial,
     self.header.msg_month,
     self.header.acknowledgement_required}
    \cup UNION {{self.allotments[i].unit_designator,
                 self.allotments[i].icao_base_code,
                 self.allotments[i].asset_count,
                 self.allotments[i].aircraft_type_model}
                : i \in 1..Len(self.allotments)}
    \cup UNION {{self.task_units[i].allotment_id,
                 self.task_units[i].amsndat.mission_number,
                 self.task_units[i].amsndat.primary_mission_type,
                 self.task_units[i].amsndat.icao_departure_location,
                 self.task_units[i].amsndat.icao_recovery_base,
                 self.task_units[i].msnacft.number_of_aircraft,
                 self.task_units[i].msnacft.aircraft_call_sign,
                 self.task_units[i].gtgtloc.designator,
                 self.task_units[i].gtgtloc.not_earlier_than,
                 self.task_units[i].gtgtloc.not_later_than,
                 self.task_units[i].controla.agency_type,
                 self.task_units[i].controla.call_sign}
                : i \in 1..Len(self.task_units)}

ValidateRaises(self) == None \in ValidateDereferences(self)

---------------------------------------------------------------------------
(* export_ato_to_text *)

\* Allotment.formatted_fragment
formatted_fragment(self) ==
    "UNIT:" \o Or(self.unit_designator, "NA")
    \o "/ICAO:" \o Upper(Or(self.icao_base_code, "NA"))
    \o "/" \o Or(self.asset_count, "NA")
    \o "/ACTYP:" \o Or(self.aircraft_type_model, "NA")

\* [x for x in parts if x]
RECURSIVE NonEmpty(_)
NonEmpty(parts) ==
    IF parts = <<>> THEN <<>>
    ELSE (IF Truthy(parts[1]) THEN <<parts[1]>> ELSE <<>>) \o NonEmpty(Tail(parts))

HeaderLines(ato) ==
    LET header == ato.header
    IN  <<"OPER/" \o Str(Or(header.operation_identification_data, ato.name)) \o "//",
          "MSGID/"
              \o Join("/", NonEmpty(<<Or(header.msg_text_format_identifier, "ATO"),
                                      Or(header.msg_originator, "UNKNOWN"),
                                      Or(header.msg_serial, "000"),
                                      Upper(Or(header.msg_month, "JAN")),
                                      Or(header.msg_qualifier, "")>>))
              \o "//",
          "AKNLDG/" \o Upper(Or(header.acknowledgement_required, "NO")) \o "//",
          "TIMEFRAM/FROM:" \o Or(header.timeframe_from, "NA")
              \o "/TO:" \o Or(header.timeframe_to, "NA") \o "//",
          "HEADING/" \o Upper(Or(header.heading, "TASKING")) \o "//">>

ResourceLines(ato) ==
    IF ato.allotments = <<>> THEN <<>>
    ELSE <<"//RESOURCES">>
         \o [i \in 1..Len(ato.allotments) |->
                "RESASSET/" \o formatted_fragment(ato.allotments[i]) \o "//"]

\* key in allotment_lookup
Resolves(allotments, key) == \E i \in 1..Len(allotments) : allotments[i].id = key

\* allotment_lookup[key]: the dict comprehension keeps, for a repeated
\* identifier, the last allotment that carries it
Lookup(allotments, key) ==
    allotments[CHOOSE i \in 1..Len(allotments) :
                   /\ allotments[i].id = key
                   /\ \A j \in (i + 1)..Len(allotments) : allotments[j].id # key]

\* the TASKUNIT line that never looks the allotment up
TaskUnitLine_own_name(unit, allotments) ==
    "TASKUNIT/" \o Or(unit.unit_name, "NA") \o "/ICAO:NA//"

\* the TASKUNIT line of one task unit
TaskUnitLine(unit, allotments) ==
    LET resolved == Resolves(allotments, unit.allotment_id)
        selected_allotment == Lookup(allotments, unit.allotment_id)
        unit_name == IF resolved THEN Or(selected_allotment.unit_designator, "NA")
                     ELSE Or(unit.unit_name, "NA")
        icao == IF resolved THEN Upper(Or(selected_allotment.icao_base_code, "NA"))
                ELSE "NA"
    IN  "TASKUNIT/" \o unit_name \o "/ICAO:" \o icao \o "//"

_iff_fragment(prefix, value) == IF Truthy(value) THEN prefix \o value ELSE "-"

\* the count fragment that prefers the asset count of the allotment
aircraft_count_fragment_allotment_first(msnacft, asset_count) ==
    IF asset_count # "NA" THEN asset_count
    ELSE Or(msnacft.number_of_aircraft, "-")

aircraft_count_fragment(msnacft, asset_count) ==
    IF ~Truthy(msnacft.number_of_aircraft) THEN Or(asset_count, "-")
    ELSE msnacft.number_of_aircraft

\* the lines the loop body appends for one task unit
TaskUnitLines(unit, allotments) ==
    LET resolved == Resolves(allotments, unit.allotment_id)
        selected_allotment == Lookup(allotments, unit.allotment_id)
        aircraft_type == IF resolved THEN Or(selected_allotment.aircraft_type_model, "NA")
                         ELSE Or(unit.aircraft_type, "NA")
        asset_count == IF resolved THEN Or(selected_allotment.asset_count, "NA")
                       ELSE "NA"
        amsndat == unit.amsndat
        msnacft == unit.msnacft
        gtgtloc == unit.gtgtloc
        controla == unit.controla
    IN  <<TaskUnitLine(unit, allotments),
          "AMSNDAT/"
              \o Join("/", <<Or(amsndat.mission_number, "-"),
                             Or(amsndat.amc_mission_number, "-"),
                             Or(amsndat.package_identification, "-"),
                             Or(amsndat.mission_commander, "-"),
                             Or(amsndat.primary_mission_type, "-"),
                             Or(amsndat.secondary_mission_type, "-"),
                             Or(amsndat.alert_status, "-"),
                             "DEPLOC:" \o Upper(Or(amsndat.icao_departure_location, "-")),
                             "ARRLOC:" \o Upper(Or(amsndat.icao_recovery_base, "-"))>>)
              \o "//",
          "MSNACFT/"
              \o Join("/", <<Or(aircraft_count_fragment(msnacft, asset_count), "-"),
                             "ACTYP:" \o Or(aircraft_type, "NA"),
                             Or(msnacft.aircraft_call_sign, "-"),
                             Or(msnacft.primary_configuration_code, "-"),
                             Or(msnacft.secondary_configuration_code, "-"),
                             _iff_fragment("1", msnacft.iff_mode1),
                             _iff_fragment("2", msnacft.iff_mode2),
                             _iff_fragment("3", msnacft.iff_mode3)>>)
              \o "//",
          "GTGTLOC/"
              \o Join("/", <<Or(gtgtloc.designator, "-"),
                             Or(gtgtloc.day_time_month_tasked, "-"),
                             "NET:" \o Upper(Or(gtgtloc.not_earlier_than, "-")),
                             "NLT:" \o Upper(Or(gtgtloc.not_later_than, "-")),
                             Or(gtgtloc.target_facility_name, "-"),
                             "ID:" \o Or(gtgtloc.target_identifier, "-"),
                             Or(gtgtloc.target_type, "-"),
                             Or(gtgtloc.dmpi_description, "-"),
                             "DMPID:" \o Or(gtgtloc.dmpi_lat_long, "-"),
                             Or(gtgtloc.geodetic_datum, "-"),
                             Or(gtgtloc.dmpi_elevation, "-"),
                             Or(gtgtloc.component_target_identifier, "-")>>)
              \o "//",
          "CONTROLA/"
              \o Join("/", <<Or(controla.agency_type, "-"),
                             Or(controla.call_sign, "-"),
                             "PFREQ:" \o Or(controla.primary_frequency, "-"),
                             "SFREQ:" \o Or(controla.secondary_frequency, "-"),
                             "NAME:" \o Or(controla.report_in_point, "-")>>)
              \o "//">>
        \o (IF Truthy(unit.amplification)
            THEN <<"AMPN/" \o unit.amplification \o "//">> ELSE <<>>)
        \o (IF Truthy(unit.narrative)
            THEN <<"NARR/" \o unit.narrative \o "//">> ELSE <<>>)

TaskUnitsLines(ato) ==
    IF ato.task_units = <<>> THEN <<>>
    ELSE <<"//TASKUNITS">>
         \o Flatten([i \in 1..Len(ato.task_units) |->
                        TaskUnitLines(ato.task_units[i], ato.allotments)])

SupportLines(ato) ==
    IF ato.support_control = <<>> THEN <<>>
    ELSE <<"//SUPPORT">>
         \o [i \in 1..Len(ato.support_control) |->
                LET support == ato.support_control[i]
                IN  "CONTROLA/"
                    \o Join(";", <<Or(support.role, "NA"),
                                   Or(support.unit, "NA"),
                                   "FREQ:" \o Or(support.frequency, "NA"),
                                   "POC:" \o Or(support.contact, "NA"),
                                   "NOTES:" \o Or(support.notes, "NA")>>)
                    \o "//"]

SpinLines(ato) ==
    IF ato.spins = <<>> THEN <<>>
    ELSE <<"//SPINS">>
         \o [i \in 1..Len(ato.spins) |->
                "NARR/" \o Or(ato.spins[i].title, "SPIN") \o ":"
                \o Or(ato.spins[i].content, "NA") \o "//"]

\* the DECL line that leaves a blank value blank
FooterLine_no_placeholder(ato) ==
    "DECL/"
    \o Join(";", <<"AUTH:" \o Str(ato.footer.authority),
                   "PREP:" \o Str(ato.footer.prepared_by),
                   "REL:" \o Str(ato.footer.release_instructions)>>)
    \o "//"

FooterLine(ato) ==
    "DECL/"
    \o Join(";", <<"AUTH:" \o Or(ato.footer.authority, "N/A"),
                   "PREP:" \o Or(ato.footer.prepared_by, "N/A"),
                   "REL:" \o Or(ato.footer.release_instructions, "N/A")>>)
    \o "//"

\* the lines with the spins section put before the support section
ExportLines_spins_first(ato) ==
    HeaderLines(ato) \o ResourceLines(ato) \o TaskUnitsLines(ato)
    \o SpinLines(ato) \o SupportLines(ato) \o <<FooterLine(ato)>>

\* the list `lines` when the function returns
ExportLines(ato) ==
    HeaderLines(ato) \o ResourceLines(ato) \o TaskUnitsLines(ato)
    \o SupportLines(ato) \o SpinLines(ato) \o <<FooterLine(ato)>>

export_ato_to_text(ato) == Join("\n", ExportLines(ato))

\* text.split("\n"): ends holds the places of the line feeds of t and the
\* place after its last character
RECURSIVE SplitAt(_, _, _)
SplitAt(t, ends, start) ==
    LET e == CHOOSE b \in ends :
                 b >= start /\ \A c \in ends : c >= start => b <= c
    IN  <<SubSeq(t, start, e - 1)>>
        \o (IF e > Len(t) THEN <<>> ELSE SplitAt(t, ends, e + 1))

SplitLines(t) ==
    SplitAt(t, {i \in 1..Len(t) : Ch(t, i) = "\n"} \cup {Len(t) + 1}, 1)

---------------------------------------------------------------------------
(* Inputs: the entities and the dicts the calls are applied to *)

\* the longest list of allotments, task units, support entries and spins
MaxItems == 2

\* the lists of at most n elements of S
SeqsUpTo(S, n) == UNION {[1..k -> S] : k \in 0..n}

\* e with the leaf f given each value of alts[f]
VaryLeaf(e, alts) ==
    UNION {{[e EXCEPT ![f] = v] : v \in alts[f]} : f \in DOMAIN alts}

GoodHeader ==
    [operation_identification_data |-> "OP1",
     msg_text_format_identifier |-> "ATO",
     msg_originator |-> "AOC",
     msg_serial |-> "001",
     msg_month |-> "JAN",
     msg_qualifier |-> "",
     acknowledgement_required |-> "NO",
     timeframe_from |-> "060600ZMAR2002",
     timeframe_to |-> "070600ZMAR2002",
     heading |-> "TASKING"]

HeaderAlts ==
    [operation_identification_data |-> {"", " "},
     msg_text_format_identifier |-> {"", "ato"},
     msg_originator |-> {""},
     msg_serial |-> {" "},
     msg_month |-> {"", "jan", "XYZ"},
     msg_qualifier |-> {"Q"},
     acknowledgement_required |-> {"", "YES", "yes", "MAYBE"},
     timeframe_from |-> {"", "BAD", "60600zmar2002", "310000ZAPR2002"},
     timeframe_to |-> {"", "070600ZMAR02"},
     heading |-> {"", "tasking"}]

Headers ==
    {GoodHeader, Header,
     [GoodHeader EXCEPT !.timeframe_from = "", !.timeframe_to = ""],
     [GoodHeader EXCEPT !.msg_month = "XYZ", !.acknowledgement_required = "MAYBE"],
     [GoodHeader EXCEPT !.timeframe_from = "BAD", !.timeframe_to = ""]}
    \cup VaryLeaf(GoodHeader, HeaderAlts)

GoodAllotment(id) ==
    [id |-> id,
     unit_designator |-> "3 SQN",
     icao_base_code |-> "LEMD",
     asset_count |-> "4",
     aircraft_type_model |-> "F18"]

AllotmentAlts ==
    [unit_designator |-> {"", " "},
     icao_base_code |-> {"", " ", "lemd"},
     asset_count |-> {"", "x", " 4", "04"},
     aircraft_type_model |-> {"", "F18 "}]

\* the allotments the longer lists are made of
CoreAllotments ==
    {GoodAllotment("a1"), GoodAllotment("a2"), Allotment("a2"),
     [GoodAllotment("a1") EXCEPT !.unit_designator = "",
                                 !.icao_base_code = "lebl",
                                 !.asset_count = "12"]}

AllotmentLists ==
    {<<a>> : a \in VaryLeaf(GoodAllotment("a1"), AllotmentAlts)}
    \cup {<<GoodAllotment("")>>, <<GoodAllotment(" ")>>}
    \cup SeqsUpTo(CoreAllotments, MaxItems)

GoodTaskUnit(ref) ==
    [allotment_id |-> ref,
     amsndat |-> [AircraftMissionData EXCEPT
                     !.mission_number = "M01",
                     !.primary_mission_type = "CAS",
                     !.icao_departure_location = "LEMD",
                     !.icao_recovery_base = "LEZL"],
     msnacft |-> [IndividualAircraftMissionData EXCEPT
                     !.number_of_aircraft = "2",
                     !.aircraft_call_sign = "VIPER",
                     !.iff_mode3 = "1200"],
     gtgtloc |-> [GroundTargetLocation EXCEPT
                     !.designator = "P",
                     !.not_earlier_than = "060600ZMAR",
                     !.not_later_than = "070600ZMAR"],
     controla |-> [ControlOfAirAssets EXCEPT
                     !.agency_type = "CRC",
                     !.call_sign = "MAGIC"],
     amplification |-> "",
     narrative |-> "",
     unit_name |-> "OLD SQN",
     aircraft_type |-> ""]

TaskUnitAlts ==
    [allotment_id |-> {"", " ", "zz", "a2"},
     amplification |-> {"AMP"},
     narrative |-> {"NAR"},
     unit_name |-> {""},
     aircraft_type |-> {"C130"}]

AmsndatAlts ==
    [mission_number |-> {"", " "},
     amc_mission_number |-> {"A7"},
     primary_mission_type |-> {"", "cas", "ZZZ"},
     secondary_mission_type |-> {"AR", "ar", "ZZZ"},
     icao_departure_location |-> {"", "lemd"},
     icao_recovery_base |-> {" ", "Lezl"}]

MsnacftAlts ==
    [number_of_aircraft |-> {"", "two", "2 "},
     aircraft_call_sign |-> {"", " "},
     iff_mode1 |-> {"12", "1a"},
     iff_mode2 |-> {"x"},
     iff_mode3 |-> {"", "12 00"}]

GtgtlocAlts ==
    [designator |-> {"", "S", "p", "X"},
     not_earlier_than |-> {"", "BAD", " 060600zmar ", "290000ZFEB"},
     not_later_than |-> {" ", "070600ZMAR2002"},
     target_facility_name |-> {"BRIDGE"}]

ControlaAlts ==
    [agency_type |-> {"", "AEW", "crc", "XX"},
     call_sign |-> {"", " "},
     primary_frequency |-> {"251.0"}]

TaskUnitVariants ==
    LET t == GoodTaskUnit("a1")
    IN  VaryLeaf(t, TaskUnitAlts)
        \cup {[t EXCEPT !.amsndat = x] : x \in VaryLeaf(t.amsndat, AmsndatAlts)}
        \cup {[t EXCEPT !.msnacft = x] : x \in VaryLeaf(t.msnacft, MsnacftAlts)}
        \cup {[t EXCEPT !.gtgtloc = x] : x \in VaryLeaf(t.gtgtloc, GtgtlocAlts)}
        \cup {[t EXCEPT !.controla = x] : x \in VaryLeaf(t.controla, ControlaAlts)}

\* the task units the longer lists are made of
CoreTaskUnits ==
    {GoodTaskUnit("a1"), TaskUnit, GoodTaskUnit("zz"),
     [GoodTaskUnit("a2") EXCEPT !.msnacft.number_of_aircraft = "",
                                !.unit_name = "",
                                !.narrative = "NAR"]}

TaskUnitLists ==
    {<<t>> : t \in TaskUnitVariants} \cup SeqsUpTo(CoreTaskUnits, MaxItems)

\* the allotments the task units of TaskUnitLists refer to, or fail to
ReferredAllotmentLists ==
    {<<>>,
     <<GoodAllotment("a1")>>,
     <<GoodAllotment("a1"), [GoodAllotment("a2") EXCEPT !.icao_base_code = "lebl"]>>,
     <<GoodAllotment("a1"), Allotment("a1")>>,
     <<GoodAllotment("")>>}

GoodSupport ==
    [role |-> "TANKER", unit |-> "9 SQN", frequency |-> "", contact |-> "POC",
     notes |-> ""]

GoodSpin == [title |-> "ROE", content |-> "WEAPONS TIGHT"]

GoodFooter ==
    [classification |-> "SECRET", authority |-> "JFACC", prepared_by |-> "",
     release_instructions |-> "NATO"]

Document(name, header, allotments, task_units, support_control, spins, footer) ==
    [id |-> "ato-1",
     name |-> name,
     header |-> header,
     allotments |-> allotments,
     task_units |-> task_units,
     support_control |-> support_control,
     spins |-> spins,
     footer |-> footer]

\* the ATO values the methods are applied to
AtoInputs ==
    {Document("OP1", h, <<>>, <<>>, <<>>, <<>>, Footer) : h \in Headers}
    \cup {Document(n, h, <<>>, <<>>, <<>>, <<>>, Footer) :
             n \in {"", " "}, h \in {GoodHeader, Header}}
    \cup {Document("OP1", GoodHeader, al, <<>>, <<>>, <<>>, Footer) :
             al \in AllotmentLists}
    \cup {Document("OP1", GoodHeader, al, tu, <<>>, <<>>, Footer) :
             al \in ReferredAllotmentLists, tu \in TaskUnitLists}
    \cup {Document("OP1", GoodHeader, al, tu, sc, sp, ft) :
             al \in {<<>>, <<GoodAllotment("a1")>>},
             tu \in {<<>>, <<GoodTaskUnit("a1")>>},
             sc \in SeqsUpTo({GoodSupport, SupportControlEntry}, MaxItems),
             sp \in {<<>>, <<GoodSpin>>, <<SpinInstruction, GoodSpin>>},
             ft \in {Footer, GoodFooter}}
    \cup {Document("", [Header EXCEPT !.msg_month = "XYZ"],
                    <<Allotment("a2"), GoodAllotment("a1")>>,
                    <<TaskUnit, [GoodTaskUnit("zz") EXCEPT !.gtgtloc.designator = "p"]>>,
                    <<>>, <<>>, Footer)}

\* {**d1, **d2}
Merge(d1, d2) ==
    [k \in DOMAIN d1 \cup DOMAIN d2 |-> IF k \in DOMAIN d2 THEN d2[k] ELSE d1[k]]

\* the dicts that lack the key k or give it one of vals
Opt(k, vals) == {<<>>} \cup {k :> v : v \in vals}

\* the renamed fields: the current key and its aliases, by priority
HeaderAliases ==
    {<<"operation_identification_data", "operation_name">>,
     <<"msg_text_format_identifier", "title">>,
     <<"msg_originator", "originating_unit">>}

AllotmentAliases ==
    {<<"unit_designator", "resource_name">>,
     <<"icao_base_code", "icao">>,
     <<"asset_count", "count_of_assets", "quantity">>,
     <<"aircraft_type_model", "aircraft_type", "mission">>}

\* the dicts Header.from_dict is given
RawHeaders ==
    {Header_to_dict(h) : h \in Headers}
    \cup {<<>>}
    \cup UNION {{Merge([msg_serial |-> "001"], Merge(c, l)) :
                    c \in Opt(a[1], {"", "NEW", None}), l \in Opt(a[2], {"", "OLD"})}
                : a \in HeaderAliases}
    \cup {Merge([msg_serial |-> "001"], Merge(c, l)) :
             c \in Opt("timeframe_from", {"", "060600ZMAR2002", None}),
             l \in Opt("effective_time_utc", {"", "2002-03-07T18:30:00", "2002-03-07", "manana"})}
    \cup {Merge([msg_serial |-> "001"], Merge(c, l)) :
             c \in Opt("timeframe_to", {"", "BAD"}),
             l \in Opt("expiry_time_utc", {"2002-02-30T00:00:00", None})}
    \cup {Merge(Header_to_dict(GoodHeader), x) :
             x \in Opt("msg_month", {"feb", None}) \cup Opt("acknowledgement_required", {"yes", None})
                   \cup Opt("msg_serial", {None}) \cup Opt("classification", {"X"})}

\* the dicts Allotment.from_dict is given
RawAllotments ==
    {Allotment_to_dict(l[1]) : l \in {x \in AllotmentLists : Len(x) = 1}}
    \cup {<<>>}
    \cup UNION {{Merge(i, Merge(c, l)) :
                    i \in Opt("id", {"a1"}),
                    c \in Opt(a[1], {"", "new", None}), l \in Opt(a[2], {"", " old "})}
                : a \in AllotmentAliases}
    \cup UNION {{Merge([id |-> "a1"], Merge(c, Merge(l, m))) :
                    c \in Opt(a[1], {"", "NEW"}), l \in Opt(a[2], {"", "OLD"}),
                    m \in Opt(a[3], {"", "07", None})}
                : a \in {x \in AllotmentAliases : Len(x) = 3}}
    \cup {Merge(Allotment_to_dict(GoodAllotment("a1")), [remarks |-> "X"])}

\* the legacy flat fields of a task unit: the segment and the leaf each fills
LegacyFields ==
    {[legacy |-> "mission_type", seg |-> "amsndat", leaf |-> "primary_mission_type"],
     [legacy |-> "callsign", seg |-> "msnacft", leaf |-> "aircraft_call_sign"],
     [legacy |-> "target", seg |-> "gtgtloc", leaf |-> "target_facility_name"],
     [legacy |-> "control_agency", seg |-> "controla", leaf |-> "call_sign"],
     [legacy |-> "tail_numbers", seg |-> "msnacft", leaf |-> "primary_configuration_code"],
     [legacy |-> "iff_code", seg |-> "msnacft", leaf |-> "iff_mode3"],
     [legacy |-> "takeoff_time_utc", seg |-> "amsndat", leaf |-> "mission_number"]}

\* another leaf of each segment
OtherLeaf ==
    [amsndat |-> "alert_status", msnacft |-> "iff_mode1",
     gtgtloc |-> "target_type", controla |-> "report_in_point"]

\* the records of the oldest flat shape
FlatTaskUnits ==
    {Merge([unit_name |-> "OLD SQN", resource_id |-> "a1"],
           Merge([mission_type |-> m, callsign |-> c, target |-> t], r)) :
        m \in {"CAS", "cas", ""}, c \in {"VIPER", ""}, t \in {"BRIDGE", None},
        r \in Opt("remarks", {"RTB"}) \cup Opt("iff_code", {"1200"})}

\* the dicts TaskUnit.from_dict is given
RawTaskUnits ==
    {TaskUnit_to_dict(t) : t \in TaskUnitVariants \cup CoreTaskUnits}
    \cup {<<>>}
    \cup FlatTaskUnits
    \cup UNION {{Merge([allotment_id |-> "a1"], Merge(sg, lg)) :
                    sg \in Opt(f.seg, {<<>>, f.leaf :> "", f.leaf :> "NEW",
                                       f.leaf :> None, OtherLeaf[f.seg] :> "X"}),
                    lg \in Opt(f.legacy, {"", "OLD", None})}
                : f \in LegacyFields}
    \cup {Merge(a, Merge(n, r)) :
             a \in Opt("allotment_id", {"", "a1"}) ,
             n \in Opt("narrative", {"", "NEW", None}) \cup Opt("resource_id", {"r1"}),
             r \in Opt("remarks", {"", "OLD"})}
    \cup {Merge([allotment_id |-> "a1"], Merge(c, l)) :
             c \in Opt("amplification", {"", "NEW", None}), l \in Opt("ampn", {"", "OLD"})}
    \cup {Merge(TaskUnit_to_dict(GoodTaskUnit("a1")), x) :
             x \in {[priority |-> "1"], [amsndat |-> [tot |-> "0600"]],
                    [controla |-> [call_sign |-> "MAGIC", band |-> "UHF"]]}}

\* the dataclasses loaded by cls(**data), by name
Segments ==
    [AircraftMissionData |-> AircraftMissionData,
     IndividualAircraftMissionData |-> IndividualAircraftMissionData,
     GroundTargetLocation |-> GroundTargetLocation,
     ControlOfAirAssets |-> ControlOfAirAssets]

Flats ==
    [SupportControlEntry |-> SupportControlEntry,
     SpinInstruction |-> SpinInstruction,
     Footer |-> Footer]

\* the dicts the from_dict of such a dataclass is given
RawFields(cls) ==
    {<<>>, AsDict(cls), Merge(AsDict(cls), [extra |-> "X"]), [extra |-> "X"]}
    \cup {k :> v : k \in DOMAIN cls, v \in {"X", None}}

\* the dicts ATO.from_dict is given
RawATOs ==
    {<<>>, [name |-> "IMPORT"],
     [name |-> "IMPORT", header |-> Header_to_dict(GoodHeader)]}
    \cup {Merge([id |-> "ato-2"], x) :
             x \in Opt("name", {"IMPORT", "", None}) \cup Opt("version", {"1"})}
    \cup {[id |-> "ato-2", name |-> "IMPORT", header |-> h] :
             h \in {<<>>, [operation_name |-> "OLD", effective_time_utc |-> "manana"],
                    [operation_name |-> "OLD", effective_time_utc |-> "060600ZMAR2002"],
                    [timeframe_to |-> "", expiry_time_utc |-> "2002-02-30T00:00:00",
                     effective_time_utc |-> "2002-03-07"],
                    [operation_identification_data |-> "OP1", msg_serial |-> None],
                    [msg_month |-> "xyz", acknowledgement_required |-> "maybe"]}}
    \cup {[id |-> "ato-2", name |-> "IMPORT", header |-> Header_to_dict(GoodHeader),
           allotments |-> al, task_units |-> tu] :
             al \in SeqsUpTo({[resource_name |-> "OLD SQN", icao |-> "lemd", quantity |-> "2"],
                              Allotment_to_dict(GoodAllotment("a1"))}, MaxItems),
             tu \in {<<>>,
                     <<[resource_id |-> "a1", mission_type |-> "CAS", callsign |-> "VIPER",
                        target |-> "BRIDGE", remarks |-> "RTB"]>>,
                     <<TaskUnit_to_dict(GoodTaskUnit("a1")),
                       [allotment_id |-> "a1", amsndat |-> [mission_number |-> "M02"],
                        mission_type |-> "AR", gtgtloc |-> [designator |-> "p"]]>>,
                     <<[allotment_id |-> None]>>,
                     <<[allotment_id |-> "a1", msnacft |-> [tail |-> "X"]]>>}}
    \cup {[id |-> "ato-2", name |-> "IMPORT",
            header |-> [operation_identification_data |-> c, operation_name |-> "OLD"],
            allotments |-> <<[id |-> "a1", unit_designator |-> c,
                              resource_name |-> "OLD SQN"]>>] :
             c \in {"", "NEW"}}
    \cup {[id |-> "ato-2", support_control |-> sc, spins |-> sp, footer |-> ft] :
             sc \in {<<>>, <<[role |-> "TANKER"]>>, <<[role |-> "TANKER", phone |-> "1"]>>},
             sp \in {<<>>, <<[title |-> None]>>},
             ft \in {<<>>, [authority |-> "JFACC"], [signature |-> "X"]}}

\* the years ATO.validate may run in
Years == {2024, 2025}

\* the identifiers uuid.uuid4() returns; no input carries one of them
UuidPool == [i \in 1..(MaxItems + 2) |-> "uuid-" \o ToString(i)]

\* n successive draws of uuid.uuid4(), all different
Draws(k, n) == [i \in 1..n |-> UuidPool[((k + i - 2) % Len(UuidPool)) + 1]]

\* the identifiers an ATO carries
IdsOf(ato) == {ato.id} \cup LookupKeys(ato.allotments)

---------------------------------------------------------------------------
(* The calls *)

NoEntity == [kind |-> "none"]

Entity(kind, val) == [kind |-> kind, val |-> val]

\* a dict that cls.from_dict is about to be given
Pending(cls, d) == [kind |-> "dict", cls |-> cls, val |-> d]

\* the dicts at hand when the program starts, by the class that loads them
Dicts ==
    {Pending("Header", d) : d \in RawHeaders}
    \cup {Pending("Allotment", d) : d \in RawAllotments}
    \cup {Pending("TaskUnit", d) : d \in RawTaskUnits}
    \cup UNION {{Pending(c, d) : d \in RawFields(Segments[c])} : c \in DOMAIN Segments}
    \cup UNION {{Pending(c, d) : d \in RawFields(Flats[c])} : c \in DOMAIN Flats}
    \cup {Pending("ATO", d) : d \in RawATOs}

\* the file is there and no caller is in a call of ATOStorage
NoCalls ==
    /\ disk = "json"
    /\ opened = "json"
    /\ uses = 0
    /\ calls = <<>>
    /\ returned = [call |-> ""]
    /\ log = <<>>
    /\ overlap = FALSE

Init ==
    /\ obj \in {Entity("ATO", a) : a \in AtoInputs} \cup Dicts
    /\ data = <<>>
    /\ after = <<>>
    /\ ret = NoEntity
    /\ errors = <<>>
    /\ text = ""
    /\ exc = ""
    /\ op = "init"
    /\ year = 0
    /\ store = <<>>
    /\ editor_data = NoneObj
    /\ view = "list"
    /\ editor_step = 1
    /\ validation_errors = <<>>
    /\ flash = None
    /\ NoCalls

\* obj is a dict for cls.from_dict
IsPending(cls) == obj.kind = "dict" /\ obj.cls = cls

\* cls.from_dict(d) was called, left d as aft, and returned or raised r
Loaded(kind, d, aft, r) ==
    /\ data' = d
    /\ after' = aft
    /\ ret' = IF Raised(r) THEN NoEntity ELSE Entity(kind, r)
    /\ obj' = IF Raised(r) THEN NoEntity ELSE Entity(kind, r)
    /\ exc' = IF Raised(r) THEN r.exc ELSE ""
    /\ op' = kind \o ".from_dict"
    /\ errors' = <<>>
    /\ text' = ""
    /\ year' = 0
    /\ UNCHANGED <<editorVars, callVars>>

CreateEmpty ==
    \E i \in 1..Len(UuidPool) :
        /\ obj' = Entity("ATO", create_empty(UuidPool[i]))
        /\ op' = "ATO.create_empty"
        /\ exc' = ""
        /\ ret' = NoEntity
        /\ data' = <<>>
        /\ after' = <<>>
        /\ errors' = <<>>
        /\ text' = ""
        /\ year' = 0
        /\ UNCHANGED <<editorVars, callVars>>

LoadHeader ==
    /\ IsPending("Header")
    /\ Loaded("Header", obj.val, obj.val, Header_from_dict(obj.val))

LoadAllotment ==
    /\ IsPending("Allotment")
    /\ \E i \in 1..Len(UuidPool) :
        /\ "id" \in DOMAIN obj.val => i = 1
        /\ Loaded("Allotment", obj.val, obj.val,
                  Allotment_from_dict(obj.val, UuidPool[i]))

LoadTaskUnit ==
    /\ IsPending("TaskUnit")
    /\ Loaded("TaskUnit", obj.val, TaskUnit_from_dict_data(obj.val),
              TaskUnit_from_dict(obj.val))

LoadSegment ==
    \E c \in DOMAIN Segments :
        /\ IsPending(c)
        /\ Loaded(c, obj.val, obj.val, Segment_from_dict(Segments[c], obj.val))

LoadFlat ==
    \E c \in DOMAIN Flats :
        /\ IsPending(c)
        /\ Loaded(c, obj.val, obj.val, Flat_from_dict(Flats[c], obj.val))

LoadATO ==
    /\ IsPending("ATO")
    /\ \E k \in 1..Len(UuidPool) :
        LET d == obj.val
            n == Len(Get(d, "allotments", <<>>))
        IN  /\ (\A i \in 1..n : "id" \in DOMAIN d["allotments"][i]) => k = 1
            /\ Loaded("ATO", d, ATO_from_dict_data(d), ATO_from_dict(d, Draws(k, n)))

\* ATO.from_dict(self.to_dict()): what a save followed by a load makes of self
Reload ==
    /\ obj.kind = "ATO"
    /\ LET d == ATO_to_dict(obj.val)
           r == ATO_from_dict(d, Draws(1, Len(d.allotments)))
       IN  /\ data' = d
           /\ after' = ATO_from_dict_data(d)
           /\ ret' = IF Raised(r) THEN NoEntity ELSE Entity("ATO", r)
           /\ exc' = IF Raised(r) THEN r.exc ELSE ""
    /\ op' = "ATO.to_dict/from_dict"
    /\ errors' = <<>>
    /\ text' = ""
    /\ year' = 0
    /\ UNCHANGED obj
    /\ UNCHANGED <<editorVars, callVars>>

Validate ==
    /\ obj.kind = "ATO"
    /\ \E y \in Years :
        /\ year' = y
        /\ errors' = IF ValidateRaises(obj.val) THEN <<>> ELSE validate(obj.val, y)
    /\ exc' = IF ValidateRaises(obj.val) THEN "AttributeError" ELSE ""
    /\ op' = "ATO.validate"
    /\ ret' = NoEntity
    /\ data' = <<>>
    /\ after' = <<>>
    /\ text' = ""
    /\ UNCHANGED obj
    /\ UNCHANGED <<editorVars, callVars>>

Export ==
    /\ obj.kind = "ATO"
    /\ text' = export_ato_to_text(obj.val)
    /\ exc' = ""
    /\ op' = "export_ato_to_text"
    /\ ret' = NoEntity
    /\ data' = <<>>
    /\ after' = <<>>
    /\ errors' = <<>>
    /\ year' = 0
    /\ UNCHANGED obj
    /\ UNCHANGED <<editorVars, callVars>>

Clone ==
    /\ obj.kind = "ATO"
    /\ \E i \in 1..Len(UuidPool) :
        /\ UuidPool[i] \notin IdsOf(obj.val)
        /\ LET r == clone(obj.val, UuidPool[i],
                          Draws(1, Len(obj.val.allotments)))
           IN  /\ ret' = IF Raised(r) THEN NoEntity ELSE Entity("ATO", r)
               /\ exc' = IF Raised(r) THEN r.exc ELSE ""
    /\ op' = "ATO.clone"
    /\ data' = <<>>
    /\ after' = <<>>
    /\ errors' = <<>>
    /\ text' = ""
    /\ year' = 0
    /\ UNCHANGED obj
    /\ UNCHANGED <<editorVars, callVars>>

Next ==
    \/ CreateEmpty
    \/ LoadHeader
    \/ LoadAllotment
    \/ LoadTaskUnit
    \/ LoadSegment
    \/ LoadFlat
    \/ LoadATO
    \/ Reload
    \/ Validate
    \/ Export
    \/ Clone

Spec == Init /\ [][Next]_vars

---------------------------------------------------------------------------
(* streamlit_app.py: the editor.  A run of the script is one action: it   *)
(* renders the view, each widget returning what the user typed in it or   *)
(* the value it was given, and runs the handler of the button pressed.    *)

\* the longest list of allotments the editor is taken to
MaxEntries == 2

\* the longest list of task units, of support entries and of spins the
\* editor is taken to
MaxTasked == 0

\* the most documents the store is taken to
MaxDocs == 2

\* the most documents the store holds while the editor is open
MaxOpen == 1

\* what a widget returns: what the user typed (inp[k]), or its `value`
Typed(inp, k, value) == IF k \in DOMAIN inp THEN inp[k] ELSE value

\* d[k] = v for each key of kv
Assign(d, kv) ==
    [k \in DOMAIN d \cup DOMAIN kv |-> IF k \in DOMAIN kv THEN kv[k] ELSE d[k]]

\* f"{n:02d}" and f"{n:04d}"
Pad2(n) == IF n < 10 THEN "0" \o ToString(n) ELSE ToString(n)

Pad4(n) ==
    IF n < 10 THEN "000" \o ToString(n)
    ELSE IF n < 100 THEN "00" \o ToString(n)
    ELSE IF n < 1000 THEN "0" \o ToString(n)
    ELSE ToString(n)

\* the datetime strptime(v, "%d%H%MZ%b%Y") returns when StrptimeOk(v)
Strptime(v) ==
    LET w == Splits[CHOOSE i \in 1..Len(Splits) :
                        /\ SplitMatches(v, Splits[i])
                        /\ \A j \in 1..(i - 1) : ~SplitMatches(v, Splits[j])]
        k == w[1] + w[2] + w[3]
    IN  [day |-> ToInt(Strip(SubSeq(v, 1, w[1]))),
         hour |-> ToInt(SubSeq(v, w[1] + 1, w[1] + w[2])),
         minute |-> ToInt(SubSeq(v, w[1] + w[2] + 1, k)),
         month |-> CHOOSE i \in 1..12 : MonthAbbr[i] = Upper(SubSeq(v, k + 2, k + 4)),
         year |-> ToInt(SubSeq(v, k + 5, k + 8))]

\* datetime.utcnow(), to the minute, as the editor may read it
Nows == {[day |-> 5, hour |-> 9, minute |-> 30, month |-> 11, year |-> 2025]}

\* _timeframe_defaults(value): the date and time the pickers start from
_timeframe_defaults(value, now) ==
    IF Truthy(value) /\ StrptimeOk(value) THEN Strptime(value) ELSE now

\* _format_timeframe_value(date, time)
_format_timeframe_value(t) ==
    Pad2(t.day) \o Pad2(t.hour) \o Pad2(t.minute) \o "Z" \o MonthAbbr[t.month]
    \o Pad4(t.year)

\* _target_window_defaults(value)
_target_window_defaults(value, now) ==
    IF Truthy(value) /\ StrptimeOk(Upper(Strip(value)) \o ToString(now.year))
    THEN Strptime(Upper(Strip(value)) \o ToString(now.year))
    ELSE now

\* _format_target_window_value(date, time)
_format_target_window_value(t) ==
    Pad2(t.day) \o Pad2(t.hour) \o Pad2(t.minute) \o "Z" \o MonthAbbr[t.month]

\* _render_header_step(data): the dict `data` (d) when the step is rendered
_render_header_step(d, inp, now) ==
    LET header == Get(d, "header", <<>>)
        stored_month == Upper(Or(Get(header, "msg_month", None), "JAN"))
        ack_default == Upper(Get(header, "acknowledgement_required", "NO"))
    IN  Assign(d,
          [name |-> Typed(inp, "name", Get(d, "name", "")),
           header |->
             Assign(header,
               [operation_identification_data |->
                    Typed(inp, "oper", Get(header, "operation_identification_data", "")),
                msg_text_format_identifier |->
                    Typed(inp, "format", Get(header, "msg_text_format_identifier", "ATO")),
                msg_originator |->
                    Typed(inp, "originator", Get(header, "msg_originator", "")),
                msg_serial |-> Typed(inp, "serial", Get(header, "msg_serial", "")),
                msg_month |->
                    Typed(inp, "month",
                          IF stored_month \in Months THEN stored_month ELSE "JAN"),
                msg_qualifier |->
                    Typed(inp, "qualifier", Get(header, "msg_qualifier", "")),
                acknowledgement_required |->
                    Typed(inp, "ack", IF ack_default = "YES" THEN "YES" ELSE "NO"),
                timeframe_from |->
                    _format_timeframe_value(
                        Typed(inp, "from",
                              _timeframe_defaults(Get(header, "timeframe_from", None), now))),
                timeframe_to |->
                    _format_timeframe_value(
                        Typed(inp, "to",
                              _timeframe_defaults(Get(header, "timeframe_to", None), now))),
                heading |-> "TASKING"])])

\* an allotment entry rendered by a loop that draws its identifier anew
AllotmentEntryRendered_new_id(entry, inp, u) ==
    Assign(entry,
      [id |-> u,
       unit_designator |-> Typed(inp, "unit", Get(entry, "unit_designator", "")),
       icao_base_code |-> Upper(Typed(inp, "icao", Get(entry, "icao_base_code", ""))),
       asset_count |-> Strip(Typed(inp, "count", Str(Get(entry, "asset_count", "")))),
       aircraft_type_model |->
           Typed(inp, "actyp", Get(entry, "aircraft_type_model", ""))])

\* one allotment entry after the body of the loop: inp holds what the user
\* typed in the widgets of this entry, u is what uuid.uuid4() returns
AllotmentEntryRendered(entry, inp, u) ==
    LET \* entry.setdefault(k, entry.get(legacy, ""))
        Alias(e, k, legacy) == SetDefault(e, k, Get(e, legacy, ""))
        Widgets(e) ==
            Assign(e,
              [unit_designator |-> Typed(inp, "unit", e["unit_designator"]),
               icao_base_code |-> Upper(Typed(inp, "icao", e["icao_base_code"])),
               asset_count |-> Strip(Typed(inp, "count", Str(e["asset_count"]))),
               aircraft_type_model |-> Typed(inp, "actyp", e["aircraft_type_model"])])
    IN  Widgets(Alias(Alias(Alias(Alias(SetDefault(entry, "id", u),
                                        "unit_designator", "resource_name"),
                                  "icao_base_code", "icao"),
                            "asset_count", "quantity"),
                      "aircraft_type_model", "aircraft_type"))

\* the entries of a list step when the run ends: the loop renders each entry
\* (rendered[i]) until the one whose delete button is pressed (del, 0 if
\* none), pops it and reruns; the add button appends `added`
StepEntries(entries, rendered, del, add, added) ==
    LET done == [i \in 1..Len(entries) |->
                    IF del = 0 \/ i <= del THEN rendered[i] ELSE entries[i]]
    IN  IF del # 0
        THEN SubSeq(done, 1, del - 1) \o SubSeq(done, del + 1, Len(done))
        ELSE IF add THEN Append(done, added)
        ELSE done

\* what the user typed in the widgets of the entry i of a list step: inp
\* names one entry (inp.idx, 0 for none) and the values typed there
TypedAt(inp, i) == IF inp.idx = i THEN inp.typed ELSE <<>>

\* _render_allotments_step(data): the dict when the run ends
_render_allotments_step(d, inp, del, add, used) ==
    LET allotments == Get(d, "allotments", <<>>)
        us == FreshUuids(used, Len(allotments) + 1)
        rendered == [i \in 1..Len(allotments) |->
                        AllotmentEntryRendered(allotments[i], TypedAt(inp, i), us[i])]
    IN  With(d, "allotments",
             StepEntries(allotments, rendered, del, add,
                         Allotment(us[Len(allotments) + 1])))

\* "".join(ch for ch in s if ch.isdigit())
RECURSIVE OnlyDigits(_)
OnlyDigits(s) ==
    IF s = "" THEN ""
    ELSE (IF Ch(s, 1) \in Digits THEN Ch(s, 1) ELSE "") \o OnlyDigits(Tail(s))

\* the default of a selectbox over "" and the codes of `options`
SelectDefault(value, options) ==
    LET current == Upper(Or(value, ""))
    IN  IF current \in options THEN current ELSE ""

\* [entry.get("id") for entry in allotments if entry.get("id")]
RECURSIVE OptionIds(_)
OptionIds(allotments) ==
    IF allotments = <<>> THEN <<>>
    ELSE (IF Truthy(Get(allotments[1], "id", None))
          THEN <<allotments[1]["id"]>> ELSE <<>>)
         \o OptionIds(Tail(allotments))

\* the amsndat dict of an entry when its widgets are read
AmsndatRendered(x, inp) ==
    Assign(x,
      [mission_number |-> Strip(Typed(inp, "mission_number", Get(x, "mission_number", ""))),
       amc_mission_number |->
           Strip(Typed(inp, "amc_mission_number", Get(x, "amc_mission_number", ""))),
       package_identification |->
           Strip(Typed(inp, "package_identification",
                       Get(x, "package_identification", ""))),
       mission_commander |->
           Strip(Typed(inp, "mission_commander", Get(x, "mission_commander", ""))),
       primary_mission_type |->
           Typed(inp, "primary_mission_type",
                 SelectDefault(Get(x, "primary_mission_type", None), MISSION_TYPE_OPTIONS)),
       secondary_mission_type |->
           Typed(inp, "secondary_mission_type",
                 SelectDefault(Get(x, "secondary_mission_type", None),
                               MISSION_TYPE_OPTIONS)),
       alert_status |-> Strip(Typed(inp, "alert_status", Get(x, "alert_status", ""))),
       icao_departure_location |->
           Upper(Strip(Typed(inp, "icao_departure_location",
                             Get(x, "icao_departure_location", "")))),
       icao_recovery_base |->
           Upper(Strip(Typed(inp, "icao_recovery_base",
                             Get(x, "icao_recovery_base", ""))))])

\* the msnacft dict of an entry when its widgets are read
MsnacftRendered(x, inp) ==
    Assign(x,
      [number_of_aircraft |->
           Strip(Typed(inp, "number_of_aircraft", Get(x, "number_of_aircraft", ""))),
       aircraft_call_sign |->
           Strip(Typed(inp, "aircraft_call_sign", Get(x, "aircraft_call_sign", ""))),
       primary_configuration_code |->
           Strip(Typed(inp, "primary_configuration_code",
                       Get(x, "primary_configuration_code", ""))),
       secondary_configuration_code |->
           Strip(Typed(inp, "secondary_configuration_code",
                       Get(x, "secondary_configuration_code", ""))),
       iff_mode1 |-> OnlyDigits(Typed(inp, "iff_mode1", Get(x, "iff_mode1", ""))),
       iff_mode2 |-> OnlyDigits(Typed(inp, "iff_mode2", Get(x, "iff_mode2", ""))),
       iff_mode3 |-> OnlyDigits(Typed(inp, "iff_mode3", Get(x, "iff_mode3", "")))])

\* the gtgtloc dict of an entry when its widgets are read
GtgtlocRendered(x, inp, now) ==
    LET text_input(k) == Strip(Typed(inp, k, Get(x, k, "")))
    IN  Assign(x,
          [designator |->
               Upper(Or(Typed(inp, "designator",
                              SelectDefault(Get(x, "designator", None), {"P", "S"})),
                        "")),
           day_time_month_tasked |-> text_input("day_time_month_tasked"),
           not_earlier_than |->
               _format_target_window_value(
                   Typed(inp, "not_earlier_than",
                         _target_window_defaults(Get(x, "not_earlier_than", None), now))),
           not_later_than |->
               _format_target_window_value(
                   Typed(inp, "not_later_than",
                         _target_window_defaults(Get(x, "not_later_than", None), now))),
           target_facility_name |-> text_input("target_facility_name"),
           target_identifier |-> text_input("target_identifier"),
           target_type |-> text_input("target_type"),
           dmpi_description |-> text_input("dmpi_description"),
           dmpi_lat_long |-> text_input("dmpi_lat_long"),
           geodetic_datum |-> text_input("geodetic_datum"),
           dmpi_elevation |-> text_input("dmpi_elevation"),
           component_target_identifier |-> text_input("component_target_identifier")])

\* the controla dict of an entry when its widgets are read
ControlaRendered(x, inp) ==
    LET text_input(k) == Strip(Typed(inp, k, Get(x, k, "")))
    IN  Assign(x,
          [agency_type |->
               Upper(Or(Typed(inp, "agency_type",
                              SelectDefault(Get(x, "agency_type", None), {"CRC", "AEW"})),
                        "")),
           call_sign |-> text_input("call_sign"),
           primary_frequency |-> text_input("primary_frequency"),
           secondary_frequency |-> text_input("secondary_frequency"),
           report_in_point |-> text_input("report_in_point")])

\* one task unit entry after the body of the loop
TaskUnitEntryRendered(entry, allotments, inp, now) ==
    LET option_ids == OptionIds(allotments)
        Defaults(e) ==
            SetDefault(
              SetDefault(
                SetDefault(
                  SetDefault(
                    SetDefault(
                      SetDefault(
                        SetDefault(e, "allotment_id",
                                   IF option_ids # <<>> THEN option_ids[1] ELSE ""),
                        "amsndat", AsDict(AircraftMissionData)),
                      "msnacft", AsDict(IndividualAircraftMissionData)),
                    "gtgtloc", AsDict(GroundTargetLocation)),
                  "controla", AsDict(ControlOfAirAssets)),
                "amplification", ""),
              "narrative", "")
        \* the default of the selectbox
        Current(e) ==
            IF option_ids = <<>> THEN ""
            ELSE IF \E i \in 1..Len(option_ids) : option_ids[i] = e["allotment_id"]
            THEN e["allotment_id"]
            ELSE option_ids[1]
        Found(selected_id) ==
            \E i \in 1..Len(allotments) : Get(allotments[i], "id", None) = selected_id
        \* next((a for a in allotments if a.get("id") == selected_id), None)
        Selected(selected_id) ==
            allotments[CHOOSE i \in 1..Len(allotments) :
                           /\ Get(allotments[i], "id", None) = selected_id
                           /\ \A j \in 1..(i - 1) :
                                  Get(allotments[j], "id", None) # selected_id]
        \* what the entry takes from the allotment it selects
        Copied(e, a) ==
            Assign(e,
              [unit_name |-> Get(a, "unit_designator", ""),
               aircraft_type |-> Get(a, "aircraft_type_model", ""),
               msnacft |->
                   IF ~Truthy(Get(e["msnacft"], "number_of_aircraft", None))
                   THEN With(e["msnacft"], "number_of_aircraft",
                             Or(Get(a, "asset_count", ""), ""))
                   ELSE e["msnacft"]])
        Select(e, selected_id) ==
            IF option_ids = <<>> THEN e
            ELSE IF ~Found(selected_id) THEN With(e, "allotment_id", selected_id)
            ELSE Copied(With(e, "allotment_id", selected_id), Selected(selected_id))
        Choice(e) == Select(e, Typed(inp, "allotment_id", Current(e)))
        Widgets(e) ==
            Assign(e,
              [amsndat |-> AmsndatRendered(e["amsndat"], inp),
               msnacft |-> MsnacftRendered(e["msnacft"], inp),
               gtgtloc |-> GtgtlocRendered(e["gtgtloc"], inp, now),
               controla |-> ControlaRendered(e["controla"], inp),
               amplification |-> Typed(inp, "amplification", Get(e, "amplification", "")),
               narrative |-> Typed(inp, "narrative", Get(e, "narrative", ""))])
    IN  \* preview_unit = TaskUnit.from_dict(entry)
        TaskUnit_from_dict_data(Widgets(Choice(Defaults(entry))))

\* the entry the button "Agregar Task Unit" appends
NewTaskUnitEntry(option_ids) ==
    [allotment_id |-> option_ids[1],
     amsndat |-> <<>>,
     msnacft |-> <<>>,
     gtgtloc |-> <<>>,
     controla |-> <<>>,
     amplification |-> "",
     narrative |-> "",
     unit_name |-> "",
     aircraft_type |-> ""]

\* _render_task_units_step(data): the dict when the run ends
_render_task_units_step(d, inp, del, add, now) ==
    LET task_units == Get(d, "task_units", <<>>)
        allotments == Get(d, "allotments", <<>>)
        option_ids == OptionIds(allotments)
        rendered == [i \in 1..Len(task_units) |->
                        TaskUnitEntryRendered(task_units[i], allotments,
                                              TypedAt(inp, i), now)]
    IN  \* without allotments the add button only warns
        With(d, "task_units",
             StepEntries(task_units, rendered, del, add /\ option_ids # <<>>,
                         IF option_ids = <<>> THEN <<>>
                         ELSE NewTaskUnitEntry(option_ids)))

\* _render_support_step(data)
_render_support_step(d, inp, del, add) ==
    LET entries == Get(d, "support_control", <<>>)
        rendered == [i \in 1..Len(entries) |->
                        Assign(entries[i],
                               [k \in DOMAIN SupportControlEntry |->
                                   Typed(TypedAt(inp, i), k, Get(entries[i], k, ""))])]
    IN  With(d, "support_control",
             StepEntries(entries, rendered, del, add, AsDict(SupportControlEntry)))

\* _render_spins_step(data)
_render_spins_step(d, inp, del, add) ==
    LET entries == Get(d, "spins", <<>>)
        rendered == [i \in 1..Len(entries) |->
                        Assign(entries[i],
                               [k \in DOMAIN SpinInstruction |->
                                   Typed(TypedAt(inp, i), k, Get(entries[i], k, ""))])]
    IN  With(d, "spins",
             StepEntries(entries, rendered, del, add, AsDict(SpinInstruction)))

\* _render_footer_step(data)
_render_footer_step(d, inp) ==
    LET footer == Get(d, "footer", <<>>)
    IN  With(d, "footer",
             Assign(footer,
                    [k \in DOMAIN Footer |-> Typed(inp, k, Get(footer, k, ""))]))

---------------------------------------------------------------------------
(* streamlit_app.py: the handlers, over the session state and the file of *)
(* the store                                                              *)

\* st.session_state and the store as a handler finds them
Session ==
    [store |-> store,
     editor_data |-> editor_data,
     view |-> view,
     editor_step |-> editor_step,
     validation_errors |-> validation_errors,
     flash |-> flash]

\* the identifiers the file and the editor hold: uuid.uuid4() returns none
\* of them
IdsInUse(s) ==
    IdsOfFile(s.store)
    \cup (IF s.editor_data = NoneObj THEN {} ELSE IdsOfDict(s.editor_data))

\* len(STEPS)
total_steps == 6

\* start_new_ato(), u being what uuid.uuid4() returns
start_new_ato(s, u) ==
    [s EXCEPT !.editor_data = ATO_to_dict(create_empty(u)),
              !.editor_step = 1,
              !.view = "edit"]

\* edit_ato(ato_id): the session it leaves, or the exception storage.get
\* raised
edit_ato(s, ato_id) ==
    LET Got(ato) ==
            IF Raised(ato) THEN ato
            ELSE IF ato = NoneObj THEN s
            ELSE [s EXCEPT !.editor_data = ATO_to_dict(ato),
                           !.editor_step = 1,
                           !.view = "edit"]
    IN  Got(get(s.store, ato_id, IdsInUse(s)))

\* cancel_edit()
cancel_edit(s) ==
    [s EXCEPT !.view = "list",
              !.editor_data = NoneObj,
              !.editor_step = 1,
              !.validation_errors = <<>>]

\* the session after storage.upsert(copy) returned r
Duplicated(s, copy, r) ==
    IF Raised(r) THEN r
    ELSE [s EXCEPT !.store = r.file,
                   !.flash = "ATO '" \o Str(copy.name) \o "' duplicado correctamente."]

\* duplicate_ato that stores the copy under the identifier of the original
duplicate_ato_same_id(s, ato_id) ==
    LET used == IdsInUse(s)
        Cloned(copy) == Duplicated(s, copy, upsert(s.store, copy, used))
        Got(ato) ==
            IF Raised(ato) THEN ato
            ELSE IF ato = NoneObj THEN s
            ELSE Cloned([ato EXCEPT !.name = Str(ato.name) \o " (Copia)"])
    IN  Got(get(s.store, ato_id, used))

\* duplicate_ato(ato_id)
duplicate_ato(s, ato_id) ==
    LET used == IdsInUse(s)
        Cloned(copy) ==
            IF Raised(copy) THEN copy
            ELSE Duplicated(s, copy, upsert(s.store, copy, used \cup {copy.id}))
        Fresh(ato, us) == Cloned(clone(ato, us[1], Tail(us)))
        Got(ato) ==
            IF Raised(ato) THEN ato
            ELSE IF ato = NoneObj THEN s
            ELSE Fresh(ato, FreshUuids(used, Len(ato.allotments) + 1))
    IN  Got(get(s.store, ato_id, used))

\* delete_ato(ato_id)
delete_ato(s, ato_id) ==
    LET Deleted(r) ==
            IF Raised(r) THEN r
            ELSE [s EXCEPT !.store = r.file, !.flash = "ATO eliminado."]
    IN  Deleted(delete(s.store, ato_id, IdsInUse(s)))

\* save_current_ato that stores the document without looking at the errors
save_current_ato_unchecked(s, y) ==
    IF s.editor_data = NoneObj \/ DOMAIN s.editor_data = {} THEN s
    ELSE
    LET used == IdsInUse(s)
        Upserted(s1, r) ==
            IF Raised(r) THEN r
            ELSE cancel_edit([s1 EXCEPT !.store = r.file,
                                        !.flash = "ATO guardado correctamente.",
                                        !.validation_errors = <<>>])
        Made(ato) ==
            IF Raised(ato) THEN ato
            ELSE Upserted([s EXCEPT !.editor_data = ATO_from_dict_data(s.editor_data)],
                          upsert(s.store, ato, used \cup IdsOf(ato)))
    IN  Made(ATO_from_dict(s.editor_data,
                           FreshUuids(used, Len(Get(s.editor_data, "allotments", <<>>)))))

\* save_current_ato(), y being datetime.utcnow().year
save_current_ato(s, y) ==
    IF s.editor_data = NoneObj \/ DOMAIN s.editor_data = {} THEN s
    ELSE
    LET used == IdsInUse(s)
        \* s1: the session with what from_dict wrote to the dict of the editor
        Upserted(s1, r) ==
            IF Raised(r) THEN r
            ELSE cancel_edit([s1 EXCEPT !.store = r.file,
                                        !.flash = "ATO guardado correctamente.",
                                        !.validation_errors = <<>>])
        Validated(s1, ato, errs) ==
            IF errs # <<>>
            THEN [s1 EXCEPT !.flash = None, !.validation_errors = errs]
            ELSE Upserted(s1, upsert(s.store, ato, used \cup IdsOf(ato)))
        Made(ato) ==
            IF Raised(ato) THEN ato
            ELSE IF ValidateRaises(ato) THEN Raise("AttributeError")
            ELSE Validated([s EXCEPT !.editor_data = ATO_from_dict_data(s.editor_data)],
                           ato, validate(ato, y))
    IN  Made(ATO_from_dict(s.editor_data,
                           FreshUuids(used, Len(Get(s.editor_data, "allotments", <<>>)))))

\* STEPS[current_step - 1].renderer(data): the dict of the editor after the
\* step is rendered.  inp is what the user typed, del the entry whose delete
\* button is pressed (0 for none), add whether the add button is
render_step(s, inp, del, add, now) ==
    LET d == s.editor_data
    IN  IF s.editor_step = 1 THEN _render_header_step(d, inp.typed, now)
        ELSE IF s.editor_step = 2
        THEN _render_allotments_step(d, inp, del, add, IdsInUse(s))
        ELSE IF s.editor_step = 3 THEN _render_task_units_step(d, inp, del, add, now)
        ELSE IF s.editor_step = 4 THEN _render_support_step(d, inp, del, add)
        ELSE IF s.editor_step = 5 THEN _render_spins_step(d, inp, del, add)
        ELSE _render_footer_step(d, inp.typed)

\* show_editor_view(): a run in the edit view.  button is the one pressed
\* below the step, "" for none; a delete or add button of the step reruns
\* the script before the buttons below are read.  When the save raises,
\* the session is as the step left it
show_editor_view(s, inp, del, add, button, now) ==
    IF s.editor_data = NoneObj THEN s
    ELSE
    LET current_step == s.editor_step
        Saved(s1, r) == IF Raised(r) THEN [exc |-> r.exc, session |-> s1] ELSE r
        Rendered(s1) ==
            IF del # 0 \/ add THEN s1
            ELSE IF current_step > 1 /\ button = "Anterior"
            THEN [s1 EXCEPT !.editor_step = current_step - 1]
            ELSE IF current_step = total_steps /\ button = "Guardar ATO"
            THEN Saved(s1, save_current_ato(s1, now.year))
            ELSE IF current_step # total_steps /\ button = "Siguiente"
            THEN [s1 EXCEPT !.editor_step = current_step + 1]
            ELSE s1
    IN  Rendered([s EXCEPT !.editor_data = render_step(s, inp, del, add, now)])

\* show_list_view() up to its buttons: the flash message is shown once
show_list_view(s) == [s EXCEPT !.flash = None]

---------------------------------------------------------------------------
(* The editor at work: one action per run of the script *)

\* the most times a name is taken through "... (Copia)"
MaxCopies == 1

\* how many times name ends with " (Copia)"
RECURSIVE CopyDepth(_)
CopyDepth(name) ==
    IF Len(name) >= 8 /\ SubSeq(name, Len(name) - 7, Len(name)) = " (Copia)"
    THEN 1 + CopyDepth(SubSeq(name, 1, Len(name) - 8))
    ELSE 0

\* what the user types in the widgets of the header step
HeaderTyped ==
    [name |-> "OP NORTE",
     oper |-> "OP1",
     format |-> "ATO",
     originator |-> "AOC",
     serial |-> "001",
     month |-> "MAR",
     qualifier |-> "",
     ack |-> "YES",
     from |-> [day |-> 6, hour |-> 6, minute |-> 0, month |-> 3, year |-> 2024],
     to |-> [day |-> 7, hour |-> 6, minute |-> 0, month |-> 3, year |-> 2024]]

\* ... of an allotment
AllotmentTyped ==
    [unit |-> "ALA 12", icao |-> "letO", count |-> " 4", actyp |-> "F18"]

\* ... of a task unit
TaskUnitTyped ==
    [mission_number |-> "M100",
     primary_mission_type |-> "CAS",
     icao_departure_location |-> "leto",
     icao_recovery_base |-> "LEZG",
     aircraft_call_sign |-> "HAWK01",
     iff_mode3 |-> "a4501",
     designator |-> "P",
     agency_type |-> "CRC",
     call_sign |-> "MAGIC"]

\* ... of a spin
SpinTyped == [title |-> "ROE", content |-> "WEAPONS TIGHT"]

\* no widget touched
Untouched == [idx |-> 0, typed |-> <<>>]

\* the list the step of the editor shows, <<>> at the steps without one
StepList(s) ==
    LET k == <<"", "allotments", "task_units", "support_control", "spins", "">>
    IN  IF s.editor_step \in {2, 3, 4, 5}
        THEN Get(s.editor_data, k[s.editor_step], <<>>)
        ELSE <<>>

\* what the user may type during one run at the step of the editor
StepInputs(s) ==
    LET n == Len(StepList(s))
        At(typed) == {[idx |-> i, typed |-> typed] : i \in 1..n}
    IN  {Untouched}
        \cup (IF s.editor_step = 1 THEN {[idx |-> 0, typed |-> HeaderTyped]}
              ELSE IF s.editor_step = 2 THEN At(AllotmentTyped)
              ELSE IF s.editor_step = 3 THEN At(TaskUnitTyped)
              ELSE IF s.editor_step = 5 THEN At(SpinTyped)
              ELSE {})

\* a run ended: r is the session it leaves, or the exception it raised
Ran(r) ==
    LET s == IF ~Raised(r) THEN r
             ELSE IF "session" \in DOMAIN r THEN r.session
             ELSE Session
    IN  /\ exc' = IF Raised(r) THEN r.exc ELSE ""
        /\ store' = s.store
        /\ editor_data' = s.editor_data
        /\ view' = s.view
        /\ editor_step' = s.editor_step
        /\ validation_errors' = s.validation_errors
        /\ flash' = s.flash
        /\ UNCHANGED <<obj, data, after, ret, errors, text, year, op>>
        /\ UNCHANGED callVars

\* the identifiers of the ATOs the list view shows
ListedIds == {store[i]["id"] : i \in 1..Len(store)}

\* the list view is on screen: its run has shown the flash message
ListShown == view = "list" /\ flash = None

\* main() in the list view, no button pressed
ShowList ==
    /\ view = "list"
    /\ Ran(show_list_view(Session))

\* "Crear nueva ATO"
StartNew ==
    /\ ListShown
    /\ Len(store) < MaxOpen
    /\ Ran(start_new_ato(Session, FreshUuid(IdsInUse(Session))))

\* "Editar"
Edit ==
    /\ ListShown
    /\ Len(store) <= MaxOpen
    /\ \E ato_id \in ListedIds : Ran(edit_ato(Session, ato_id))

\* "Duplicar"
Duplicate ==
    /\ ListShown
    /\ Len(store) < MaxDocs
    /\ \E i \in 1..Len(store) :
        /\ CopyDepth(Get(store[i], "name", "ATO")) < MaxCopies
        /\ Ran(duplicate_ato(Session, store[i]["id"]))

\* "Eliminar"
Delete ==
    /\ ListShown
    /\ \E ato_id \in ListedIds : Ran(delete_ato(Session, ato_id))

\* "Volver a la lista"
CancelEdit ==
    /\ view = "edit"
    /\ Ran(cancel_edit(Session))

\* the buttons the edit view shows below the step
Buttons(s) ==
    (IF s.editor_step > 1 THEN {"Anterior"} ELSE {})
    \cup (IF s.editor_step = total_steps THEN {"Guardar ATO"} ELSE {"Siguiente"})

\* what the user may press during one run in the edit view: nothing, a
\* button below the step, a delete button of the step or its add button
Presses(s) ==
    {[del |-> 0, add |-> FALSE, button |-> b] : b \in {""} \cup Buttons(s)}
    \cup {[del |-> i, add |-> FALSE, button |-> ""] : i \in 1..Len(StepList(s))}
    \cup (IF /\ s.editor_step \in {2, 3, 4, 5}
             /\ Len(StepList(s)) < (IF s.editor_step = 2 THEN MaxEntries
                                    ELSE MaxTasked)
          THEN {[del |-> 0, add |-> TRUE, button |-> ""]}
          ELSE {})

\* main() in the edit view: the widgets are read, then the button pressed
ShowEditor ==
    /\ view = "edit"
    /\ \E inp \in StepInputs(Session), press \in Presses(Session), now \in Nows :
        Ran(show_editor_view(Session, inp, press.del, press.add, press.button, now))

\* a document an earlier version of the program stored: its allotment has
\* no identifier and the keys of that version
LegacyDoc ==
    [id |-> "ato-legacy",
     name |-> "OP SUR",
     header |-> AsDict(GoodHeader),
     allotments |-> <<[resource_name |-> "ALA 14", icao |-> "leab",
                       quantity |-> "2", aircraft_type |-> "EF18"]>>]

\* ensure_state() over the file ATOStorage.__init__ finds or writes
EditorInit ==
    /\ store \in {<<>>, <<LegacyDoc>>}
    /\ editor_data = NoneObj
    /\ view = "list"
    /\ editor_step = 1
    /\ validation_errors = <<>>
    /\ flash = None
    /\ op = "main"
    /\ exc = ""
    /\ obj = NoEntity
    /\ data = <<>>
    /\ after = <<>>
    /\ ret = NoEntity
    /\ errors = <<>>
    /\ text = ""
    /\ year = 0
    /\ NoCalls

EditorNext ==
    \/ ShowList
    \/ StartNew
    \/ Edit
    \/ Duplicate
    \/ Delete
    \/ CancelEdit
    \/ ShowEditor

EditorSpec == EditorInit /\ [][EditorNext]_vars

---------------------------------------------------------------------------
(* app/storage.py: the callers of ATOStorage.  upsert and delete read the  *)
(* whole file (load_all) and then write it (save_all): each is two steps,  *)
(* and between them another caller (another session of the editor) may     *)
(* run.  load_all and get only read: one step.                             *)

MaxUses == 2

Callers == {1, 2}

\* the documents the callers store: those of create_empty, renamed, one of
\* them with the month a program set in lower case
Documents ==
    {[create_empty("ato-1") EXCEPT !.name = "OP A"],
     [create_empty("ato-1") EXCEPT !.name = "OP B"],
     [create_empty("ato-2") EXCEPT !.name = "OP A"],
     [create_empty("ato-2") EXCEPT !.name = "OP B", !.header.msg_month = "jan"]}

DocumentIds == {d.id : d \in Documents}

\* ATOStorage._read: json.load of the file, which raises on a file of zero
\* bytes ("Expecting value") and cannot open an absent one
_read(d, file) ==
    IF d = "absent" THEN [exc |-> "FileNotFoundError"]
    ELSE IF d = "empty" THEN [exc |-> "JSONDecodeError"]
    ELSE [file |-> file]

\* ATOStorage.__init__: self._write([]) if the file does not exist
ATOStorage_init(d, file) ==
    IF d = "absent" THEN [disk |-> "json", store |-> <<>>]
    ELSE [disk |-> d, store |-> file]

\* a method of ATOStorage of which _read is the first step: what Call makes
\* of the list _read returns, or the exception _read raises
OnRead(r, Call(_)) == IF Raised(r) THEN r ELSE Call(r.file)

Idle == [op |-> "idle"]

InCall(c) == calls[c] # Idle

NoReturn == [call |-> ""]

NothingStored == [u \in DocumentIds |-> NoneObj]

\* what the callers of ATOStorage leave alone
Offstage ==
    UNCHANGED <<obj, data, after, ret, errors, text, year,
                editor_data, view, editor_step, validation_errors, flash>>

\* storage = ATOStorage(DATA_PATH)
Open ==
    /\ opened = ""
    /\ opened' = disk
    /\ LET Then(r) == disk' = r.disk /\ store' = r.store
       IN  Then(ATOStorage_init(disk, store))
    /\ op' = "ATOStorage"
    /\ exc' = ""
    /\ UNCHANGED <<uses, calls, returned, log, overlap>>
    /\ Offstage

\* caller c begins the call `name`
Begins(c, name) ==
    /\ opened # ""
    /\ ~InCall(c)
    /\ op' = name
    /\ uses' = IF uses < MaxUses THEN uses + 1 ELSE uses
    /\ overlap' = (overlap \/ \E o \in Callers \ {c} : InCall(o))
    /\ UNCHANGED opened
    /\ Offstage

\* storage.load_all()
LoadAll(c) ==
    /\ Begins(c, "load_all")
    /\ LET Call(file) == load_all(file, {})
           Then(r) ==
               /\ exc' = IF Raised(r) THEN r.exc ELSE ""
               /\ returned' = IF Raised(r) THEN NoReturn
                              ELSE [call |-> "load_all", value |-> r.atos]
       IN  Then(OnRead(_read(disk, store), Call))
    /\ UNCHANGED <<disk, store, calls, log>>

\* storage.get(ato_id)
GetOne(c) ==
    /\ Begins(c, "get")
    /\ \E ato_id \in DocumentIds :
        LET Call(file) == get(file, ato_id, {})
            Then(r) ==
                /\ exc' = IF Raised(r) THEN r.exc ELSE ""
                /\ returned' = IF Raised(r) THEN NoReturn
                               ELSE [call |-> "get", ato_id |-> ato_id, value |-> r]
        IN  Then(OnRead(_read(disk, store), Call))
    /\ UNCHANGED <<disk, store, calls, log>>

\* the first step of upsert or delete: self._read() in load_all
ReadFor(c, call) ==
    LET Then(r) ==
            /\ exc' = IF Raised(r) THEN r.exc ELSE ""
            /\ calls' = IF Raised(r) THEN calls
                        ELSE [calls EXCEPT ![c] = [call EXCEPT !.read = r.file]]
    IN  /\ Then(_read(disk, store))
        /\ returned' = NoReturn
        /\ UNCHANGED <<disk, store, log>>

\* storage.upsert(ato), up to what _read returns
UpsertRead(c) ==
    /\ Begins(c, "upsert")
    /\ \E ato \in Documents :
        ReadFor(c, [op |-> "upsert", ato |-> ato, read |-> <<>>])

\* storage.delete(ato_id), up to what _read returns
DeleteRead(c) ==
    /\ Begins(c, "delete")
    /\ \E ato_id \in DocumentIds :
        ReadFor(c, [op |-> "delete", ato_id |-> ato_id, read |-> <<>>])

\* the last step of upsert or delete: self._write(payload) in save_all,
\* r being what the call made of the list it had read
WriteFor(c, r, ato_id, left) ==
    /\ exc' = IF Raised(r) THEN r.exc ELSE ""
    /\ store' = IF Raised(r) THEN store ELSE r.file
    /\ log' = IF Raised(r) THEN log ELSE [log EXCEPT ![ato_id] = left]
    /\ calls' = [calls EXCEPT ![c] = Idle]
    /\ returned' = NoReturn
    /\ UNCHANGED <<disk, opened, uses, overlap, op>>
    /\ Offstage

\* storage.upsert(ato) that reads the file again when it writes
UpsertWrite_fresh_read(c) ==
    /\ calls[c].op = "upsert"
    /\ WriteFor(c, upsert(store, calls[c].ato, {}),
                calls[c].ato.id, calls[c].ato)

\* storage.upsert(ato), from there on
UpsertWrite(c) ==
    /\ calls[c].op = "upsert"
    /\ WriteFor(c, upsert(calls[c].read, calls[c].ato, {}),
                calls[c].ato.id, calls[c].ato)

\* storage.delete(ato_id), from there on
DeleteWrite(c) ==
    /\ calls[c].op = "delete"
    /\ WriteFor(c, delete(calls[c].read, calls[c].ato_id, {}),
                calls[c].ato_id, NoneObj)

\* the file before ATOStorage is made: none, one of zero bytes, or the
\* JSON text of the empty list
StoreInit ==
    /\ disk \in {"absent", "empty", "json"}
    /\ store = <<>>
    /\ opened = ""
    /\ uses = 0
    /\ calls = [c \in Callers |-> Idle]
    /\ returned = NoReturn
    /\ log = NothingStored
    /\ overlap = FALSE
    /\ op = "init"
    /\ exc = ""
    /\ obj = NoEntity
    /\ data = <<>>
    /\ after = <<>>
    /\ ret = NoEntity
    /\ errors = <<>>
    /\ text = ""
    /\ year = 0
    /\ editor_data = NoneObj
    /\ view = "list"
    /\ editor_step = 1
    /\ validation_errors = <<>>
    /\ flash = None

StoreNext ==
    \/ Open
    \/ \E c \in Callers : LoadAll(c)
    \/ \E c \in Callers : GetOne(c)
    \/ \E c \in Callers : UpsertRead(c)
    \/ \E c \in Callers : UpsertWrite(c)
    \/ \E c \in Callers : DeleteRead(c)
    \/ \E c \in Callers : DeleteWrite(c)

StoreSpec == StoreInit /\ [][StoreNext]_vars

---------------------------------------------------------------------------
(* Properties *)

Range(f) == {f[k] : k \in DOMAIN f}

\* every leaf value of an ATO
Leaves(ato) ==
    {ato.id, ato.name} \cup Range(ato.header) \cup Range(ato.footer)
    \cup UNION {Range(ato.allotments[i]) : i \in 1..Len(ato.allotments)}
    \cup UNION {Range(ato.support_control[i]) : i \in 1..Len(ato.support_control)}
    \cup UNION {Range(ato.spins[i]) : i \in 1..Len(ato.spins)}
    \cup UNION {LET t == ato.task_units[i]
                IN  {t.allotment_id, t.amplification, t.narrative, t.unit_name,
                     t.aircraft_type}
                    \cup Range(t.amsndat) \cup Range(t.msnacft)
                    \cup Range(t.gtgtloc) \cup Range(t.controla)
                : i \in 1..Len(ato.task_units)}

\* the leaves the loaders rewrite are in the form the loaders give them
Canonical(ato) ==
    /\ None \notin Leaves(ato)
    /\ ato.header.msg_month # ""
    /\ ato.header.msg_month = Upper(ato.header.msg_month)
    /\ ato.header.acknowledgement_required # ""
    /\ ato.header.acknowledgement_required = Upper(ato.header.acknowledgement_required)
    /\ \A i \in 1..Len(ato.allotments) :
          LET a == ato.allotments[i]
          IN  /\ a.icao_base_code = Upper(a.icao_base_code)
              /\ a.asset_count = Strip(a.asset_count)
              /\ a.aircraft_type_model = Strip(a.aircraft_type_model)

\* C1 as stated: for any ATO value v, ATO.from_dict(v.to_dict()) returns an
\* ATO equal to v in its identity, every nested identity and every leaf.
C1_RoundTripAny ==
    op = "ATO.to_dict/from_dict" => exc = "" /\ ret = obj

\* C1 amended: for any ATO value v whose leaves are strings, whose header
\* month and acknowledgement flag are non-empty and upper-case, and whose
\* allotments carry an upper-case ICAO code and an asset count and aircraft
\* type without surrounding whitespace, ATO.from_dict(v.to_dict()) equals v
\* in its identity, every nested identity and every leaf.
C1_RoundTripCanonical ==
    (op = "ATO.to_dict/from_dict" /\ Canonical(obj.val)) => exc = "" /\ ret = obj

\* a canonical ATO with allotments, task units, support entries and spins
\* came back from the round trip
C1_Witness ==
    /\ op = "ATO.to_dict/from_dict"
    /\ Canonical(obj.val)
    /\ Len(obj.val.allotments) = 2
    /\ obj.val.task_units # <<>>
    /\ ret = obj

\* C2 as stated: from_dict of every entity returns a typed entity for every
\* mapping, also one that lacks the document id or carries unknown keys; it
\* never fails.
C2_MigrationTotal ==
    op \in {"ATO.from_dict", "Header.from_dict", "Allotment.from_dict",
            "TaskUnit.from_dict", "AircraftMissionData.from_dict",
            "IndividualAircraftMissionData.from_dict",
            "GroundTargetLocation.from_dict", "ControlOfAirAssets.from_dict",
            "SupportControlEntry.from_dict", "SpinInstruction.from_dict",
            "Footer.from_dict"}
        => exc = "" /\ ret.kind # "none"

---------------------------------------------------------------------------
(* The rule set of the validation engine *)

NonBlank(v) == v # None /\ Strip(v) # ""

\* v is one of the codes S: as written when exact, in any case otherwise
OneOf(v, S, exact) == v # None /\ (IF exact THEN v \in S ELSE Upper(v) \in S)

HeaderRuleNames ==
    {"name", "oper", "format", "originator", "serial", "month", "ack", "from", "to"}

AllotmentRuleNames == {"unit", "icao", "count", "actyp"}

TaskUnitRuleNames ==
    {"reference", "mission_number", "primary", "secondary", "deploc", "arrloc",
     "aircraft", "call_sign", "iff1", "iff2", "iff3", "designator", "net", "nlt",
     "agency", "control_call_sign"}

HeaderRuleOk(doc, k, exact) ==
    LET h == doc.header
    IN  CASE k = "name" -> NonBlank(doc.name)
          [] k = "oper" -> NonBlank(h.operation_identification_data)
          [] k = "format" -> NonBlank(h.msg_text_format_identifier)
          [] k = "originator" -> NonBlank(h.msg_originator)
          [] k = "serial" -> NonBlank(h.msg_serial)
          [] k = "month" -> OneOf(h.msg_month, Months, FALSE)
          [] k = "ack" -> OneOf(h.acknowledgement_required, {"YES", "NO"}, exact)
          [] k = "from" -> NonBlank(h.timeframe_from) /\ StrptimeOk(h.timeframe_from)
          [] k = "to" -> NonBlank(h.timeframe_to) /\ StrptimeOk(h.timeframe_to)

AllotmentRuleOk(a, k) ==
    CASE k = "unit" -> NonBlank(a.unit_designator)
      [] k = "icao" -> NonBlank(a.icao_base_code)
                       /\ a.icao_base_code = Upper(a.icao_base_code)
      [] k = "count" -> NonBlank(a.asset_count) /\ IsDigit(a.asset_count)
      [] k = "actyp" -> NonBlank(a.aircraft_type_model)

TaskUnitRuleOk(doc, t, k, y, exact) ==
    CASE k = "reference" ->
             /\ NonBlank(t.allotment_id)
             /\ \E i \in 1..Len(doc.allotments) : doc.allotments[i].id = t.allotment_id
      [] k = "mission_number" -> NonBlank(t.amsndat.mission_number)
      [] k = "primary" ->
             /\ NonBlank(t.amsndat.primary_mission_type)
             /\ OneOf(t.amsndat.primary_mission_type, MISSION_TYPE_OPTIONS, exact)
      [] k = "secondary" ->
             Truthy(t.amsndat.secondary_mission_type)
                 => OneOf(t.amsndat.secondary_mission_type, MISSION_TYPE_OPTIONS, exact)
      [] k = "deploc" ->
             /\ NonBlank(t.amsndat.icao_departure_location)
             /\ t.amsndat.icao_departure_location = Upper(t.amsndat.icao_departure_location)
      [] k = "arrloc" ->
             /\ NonBlank(t.amsndat.icao_recovery_base)
             /\ t.amsndat.icao_recovery_base = Upper(t.amsndat.icao_recovery_base)
      [] k = "aircraft" ->
             NonBlank(t.msnacft.number_of_aircraft) /\ IsDigit(t.msnacft.number_of_aircraft)
      [] k = "call_sign" -> NonBlank(t.msnacft.aircraft_call_sign)
      [] k = "iff1" -> Truthy(t.msnacft.iff_mode1) => IsDigit(t.msnacft.iff_mode1)
      [] k = "iff2" -> Truthy(t.msnacft.iff_mode2) => IsDigit(t.msnacft.iff_mode2)
      [] k = "iff3" -> Truthy(t.msnacft.iff_mode3) => IsDigit(t.msnacft.iff_mode3)
      [] k = "designator" -> OneOf(t.gtgtloc.designator, {"P", "S"}, exact)
      [] k = "net" ->
             NonBlank(t.gtgtloc.not_earlier_than)
             /\ _validate_short_dtg(t.gtgtloc.not_earlier_than, y)
      [] k = "nlt" ->
             NonBlank(t.gtgtloc.not_later_than)
             /\ _validate_short_dtg(t.gtgtloc.not_later_than, y)
      [] k = "agency" -> OneOf(t.controla.agency_type, {"CRC", "AEW"}, exact)
      [] k = "control_call_sign" -> NonBlank(t.controla.call_sign)

\* the rules the document fails: <<"header", 0, rule>>, <<"allotment", i, rule>>
\* and <<"task_unit", i, rule>>
FailingRules(doc, y, exact) ==
    {<<"header", 0, k>> : k \in {x \in HeaderRuleNames : ~HeaderRuleOk(doc, x, exact)}}
    \cup UNION {{<<"allotment", i, k>> :
                    k \in {x \in AllotmentRuleNames :
                              ~AllotmentRuleOk(doc.allotments[i], x)}}
                : i \in 1..Len(doc.allotments)}
    \cup UNION {{<<"task_unit", i, k>> :
                    k \in {x \in TaskUnitRuleNames :
                              ~TaskUnitRuleOk(doc, doc.task_units[i], x, y, exact)}}
                : i \in 1..Len(doc.task_units)}

\* C3 as stated: ATO.validate returns an empty list if and only if the
\* document satisfies every rule of the rule set, the acknowledgement flag
\* being exactly YES or NO, the designator exactly P or S, the control
\* agency exactly CRC or AEW and the mission types recognised codes.
C3_EmptyIffRulesExact ==
    op = "ATO.validate"
        => ((exc = "" /\ errors = <<>>) <=> FailingRules(obj.val, year, TRUE) = {})

\* C3 amended: ATO.validate returns an empty list if and only if the
\* document satisfies every rule of the rule set, where the acknowledgement
\* flag, the mission types, the designator and the control agency type are
\* compared without regard to case, as the month is.
C3_EmptyIffRules ==
    op = "ATO.validate"
        => ((exc = "" /\ errors = <<>>) <=> FailingRules(obj.val, year, FALSE) = {})

\* validate returned the empty list for a document with an allotment and a
\* task unit
C3_Witness ==
    /\ op = "ATO.validate"
    /\ exc = ""
    /\ errors = <<>>
    /\ obj.val.allotments # <<>>
    /\ obj.val.task_units # <<>>

\* sub occurs in s
Contains(s, sub) ==
    \E i \in 1..(Len(s) - Len(sub) + 1) : SubSeq(s, i, i + Len(sub) - 1) = sub

StartsWith(s, sub) == Len(s) >= Len(sub) /\ SubSeq(s, 1, Len(sub)) = sub

\* the place of a rule in the document order: the name, the required header
\* fields, the month, the acknowledgement flag, the header dates, the
\* allotments in list order, the task units in list order
RuleRank(r) ==
    CASE r[1] = "allotment" -> 10 + r[2]
      [] r[1] = "task_unit" -> 100 + r[2]
      [] r[3] = "name" -> 1
      [] r[3] \in {"oper", "format", "originator", "serial"} -> 2
      [] r[3] = "month" -> 3
      [] r[3] = "ack" -> 4
      [] r[3] \in {"from", "to"} -> 5

\* the place in the document order of what a violation is about
MessageRank(msg) ==
    CASE StartsWith(msg, "El nombre del ATO") -> 1
      [] StartsWith(msg, "El campo MSGID - Month") -> 3
      [] StartsWith(msg, "El campo AKNLDG") -> 4
      [] StartsWith(msg, "La fecha '") -> 5
      [] Contains(msg, "Allotment #") ->
             10 + (CHOOSE i \in 1..9 : Contains(msg, "Allotment #" \o ToString(i) \o " "))
      [] Contains(msg, "Task Unit #") ->
             100 + (CHOOSE i \in 1..9 : Contains(msg, "Task Unit #" \o ToString(i) \o " "))
      [] OTHER -> 2

\* C4: ATO.validate does not stop at the first failure: every failing rule
\* of every part of the document has its violation in the result, and the
\* violations come in document order (name, required header fields, month,
\* acknowledgement flag, header dates, allotments in list order, task units
\* in list order); so an invalid month and an invalid acknowledgement flag
\* yield both violations, the month one first.
C4_AllFailuresInOrder ==
    (op = "ATO.validate" /\ exc = "")
        => /\ \A rank \in {RuleRank(r) : r \in FailingRules(obj.val, year, FALSE)}
                      \cup {MessageRank(errors[i]) : i \in 1..Len(errors)} :
                  Cardinality({i \in 1..Len(errors) : MessageRank(errors[i]) = rank})
                  = Cardinality({r \in FailingRules(obj.val, year, FALSE) :
                                    RuleRank(r) = rank})
           /\ \A i, j \in 1..Len(errors) :
                  i < j => MessageRank(errors[i]) <= MessageRank(errors[j])

\* validate ran on a header with month XYZ and flag MAYBE and returned the
\* two violations, the month one first
C4_Witness ==
    /\ op = "ATO.validate"
    /\ obj.val.header.msg_month = "XYZ"
    /\ obj.val.header.acknowledgement_required = "MAYBE"
    /\ errors = <<"El campo MSGID - Month debe seleccionarse de la lista proporcionada.",
                  "El campo AKNLDG debe ser 'YES' o 'NO'.">>

\* C5 as stated: for any ATO a, a.clone() has an identity different from
\* a's, a's name with " (Copia)" appended, and header, allotments (with
\* their identities), task units (with their allotment references), support
\* entries, spins and footer field-for-field equal to a's.
C5_CloneEqual ==
    op = "ATO.clone"
        => /\ exc = ""
           /\ ret.val.id # obj.val.id
           /\ ret.val.name = Str(obj.val.name) \o " (Copia)"
           /\ ret.val.header = obj.val.header
           /\ ret.val.allotments = obj.val.allotments
           /\ ret.val.task_units = obj.val.task_units
           /\ ret.val.support_control = obj.val.support_control
           /\ ret.val.spins = obj.val.spins
           /\ ret.val.footer = obj.val.footer

\* a record in the oldest flat shape of a task unit
IsFlat(d) ==
    /\ {"mission_type", "callsign", "target"} \subseteq DOMAIN d
    /\ DOMAIN d \cap {"amsndat", "msnacft", "gtgtloc"} = {}

\* C6: TaskUnit.from_dict of a record in the oldest flat shape (mission_type,
\* callsign, target and no amsndat/msnacft/gtgtloc) returns a task unit whose
\* amsndat.primary_mission_type, msnacft.aircraft_call_sign and
\* gtgtloc.target_facility_name are the legacy values.
C6_FlatShapeMigrates ==
    (op = "TaskUnit.from_dict" /\ IsFlat(data))
        => /\ exc = ""
           /\ ret.val.amsndat.primary_mission_type = data["mission_type"]
           /\ ret.val.msnacft.aircraft_call_sign = data["callsign"]
           /\ ret.val.gtgtloc.target_facility_name = data["target"]

\* a flat record with the three legacy values was migrated
C6_Witness ==
    /\ op = "TaskUnit.from_dict"
    /\ IsFlat(data)
    /\ data["mission_type"] = "CAS"
    /\ data["target"] = "BRIDGE"
    /\ ret.val.amsndat.primary_mission_type = "CAS"
    /\ ret.val.msnacft.aircraft_call_sign = "VIPER"
    /\ ret.val.gtgtloc.target_facility_name = "BRIDGE"

\* the record d carries a current-schema value for the leaf of f
HasCurrent(d, f) == f.seg \in DOMAIN d /\ f.leaf \in DOMAIN d[f.seg]

\* C7: in TaskUnit.from_dict a legacy flat field fills its leaf only when
\* the leaf has no current-schema value: whenever the record carries both a
\* current-schema value and a legacy value for a leaf (narrative and remarks
\* included), the migrated leaf is the current-schema value.
C7_CurrentWins ==
    (op = "TaskUnit.from_dict" /\ exc = "")
        => /\ \A f \in LegacyFields :
                  (f.legacy \in DOMAIN data /\ HasCurrent(data, f))
                      => ret.val[f.seg][f.leaf] = data[f.seg][f.leaf]
           /\ ({"remarks", "narrative"} \subseteq DOMAIN data
               /\ data["narrative"] # None)
                  => ret.val.narrative = data["narrative"]

\* a record with both a current and a different legacy value was migrated
C7_Witness ==
    /\ op = "TaskUnit.from_dict"
    /\ {"mission_type", "amsndat"} \subseteq DOMAIN data
    /\ "primary_mission_type" \in DOMAIN data["amsndat"]
    /\ data["mission_type"] = "OLD"
    /\ data["amsndat"]["primary_mission_type"] = "NEW"
    /\ ret.val.amsndat.primary_mission_type = "NEW"

\* the key k has a value in d: under "presence" when d holds the key, under
\* "truthy" when it holds it with a non-empty value
Has(d, k, rule) == k \in DOMAIN d /\ (rule = "truthy" => Truthy(d[k]))

\* the first of the keys that has a value in d
FirstWithValue(d, keys, rule) ==
    keys[CHOOSE i \in 1..Len(keys) :
             Has(d, keys[i], rule) /\ \A j \in 1..(i - 1) : ~Has(d, keys[j], rule)]

HeaderConforms(d, h, rule) ==
    \A a \in HeaderAliases :
        (\E i \in 1..Len(a) : Has(d, a[i], rule))
            => h[a[1]] = d[FirstWithValue(d, a, rule)]

\* what Allotment.from_dict makes of the value it picked for a leaf
AllotmentLeaf(leaf, v) ==
    IF leaf = "unit_designator" THEN v
    ELSE IF leaf = "icao_base_code" THEN Upper(v)
    ELSE TrimmedText(v)

AllotmentConforms(d, al, rule) ==
    \A a \in AllotmentAliases :
        (\E i \in 1..Len(a) : Has(d, a[i], rule))
            => al[a[1]] = AllotmentLeaf(a[1], d[FirstWithValue(d, a, rule)])

\* C8 as stated: every renamed field takes the value under the current name
\* when it has one and otherwise the first legacy alias, in priority order,
\* that has one, and Header and Allotment agree on whether an empty
\* current-name value counts as a value.
C8_AliasPriority ==
    /\ op = "Header.from_dict"
           => \E rule \in {"presence", "truthy"} : HeaderConforms(data, ret.val, rule)
    /\ (op = "Allotment.from_dict" /\ "id" \in DOMAIN data)
           => \E rule \in {"presence", "truthy"} : AllotmentConforms(data, ret.val, rule)
    /\ (op = "ATO.from_dict" /\ exc = "")
           => \E rule \in {"presence", "truthy"} :
                  /\ HeaderConforms(Get(data, "header", <<>>), ret.val.header, rule)
                  /\ \A i \in 1..Len(ret.val.allotments) :
                         AllotmentConforms(data["allotments"][i],
                                           ret.val.allotments[i], rule)

\* the violations of errs that are about task unit idx and hold the phrase
Reported(errs, idx, phrase) ==
    Cardinality({k \in 1..Len(errs) :
                    /\ Contains(errs[k], "Task Unit #" \o ToString(idx) \o " ")
                    /\ Contains(errs[k], phrase)})

\* C9: for every task unit ATO.validate reports exactly one "missing
\* reference" violation when its allotment reference is blank, exactly one
\* "unresolved reference" violation, a different one, when the reference is
\* not blank and is no allotment identity of the ATO, and neither when the
\* reference is not blank and is the identity of an allotment.
C9_ReferenceViolations ==
    (op = "ATO.validate" /\ exc = "")
        => \A i \in 1..Len(obj.val.task_units) :
               LET ref == obj.val.task_units[i].allotment_id
                   missing == Reported(errors, i, "debe vincularse a un recurso")
                   unresolved == Reported(errors, i, "referencia un Allotment inexistente")
               IN  IF Strip(ref) = "" THEN missing = 1 /\ unresolved = 0
                   ELSE IF \A j \in 1..Len(obj.val.allotments) :
                               obj.val.allotments[j].id # ref
                        THEN missing = 0 /\ unresolved = 1
                        ELSE missing = 0 /\ unresolved = 0

\* validate ran on a document whose first task unit has a blank reference
\* and whose second refers to no allotment of a non-empty list
C9_Witness ==
    /\ op = "ATO.validate"
    /\ exc = ""
    /\ Len(obj.val.task_units) = 2
    /\ obj.val.allotments # <<>>
    /\ obj.val.task_units[1].allotment_id = ""
    /\ obj.val.task_units[2].allotment_id = "zz"
    /\ Reported(errors, 1, "debe vincularse a un recurso") = 1
    /\ Reported(errors, 2, "referencia un Allotment inexistente") = 1

IsTaskUnitLine(line) == StartsWith(line, "TASKUNIT/")

\* C10: export_ato_to_text does not fail on a task unit whose reference
\* matches no allotment of the ATO and still emits its TASKUNIT line, made
\* of the task unit's own unit_name ("NA" when blank) and ICAO "NA"; when
\* the reference resolves the line carries the unit designator and the
\* upper-cased ICAO code of an allotment with that identity.
C10_TaskUnitLine ==
    op = "export_ato_to_text"
        => /\ exc = ""
           /\ LET lines == SelectSeq(SplitLines(text), IsTaskUnitLine)
                  allotments == obj.val.allotments
              IN  /\ Len(lines) = Len(obj.val.task_units)
                  /\ \A i \in 1..Len(lines) :
                         LET unit == obj.val.task_units[i]
                         IN  IF \E j \in 1..Len(allotments) :
                                    allotments[j].id = unit.allotment_id
                             THEN \E j \in 1..Len(allotments) :
                                      /\ allotments[j].id = unit.allotment_id
                                      /\ lines[i] =
                                             "TASKUNIT/"
                                             \o Or(allotments[j].unit_designator, "NA")
                                             \o "/ICAO:"
                                             \o Upper(Or(allotments[j].icao_base_code, "NA"))
                                             \o "//"
                             ELSE lines[i] = "TASKUNIT/" \o Or(unit.unit_name, "NA")
                                             \o "/ICAO:NA//"

\* a document was exported whose first task unit refers to no allotment and
\* whose second refers to an allotment with a lower-case ICAO code
C10_Witness ==
    /\ op = "export_ato_to_text"
    /\ Len(obj.val.task_units) = 2
    /\ obj.val.task_units[1].allotment_id = "zz"
    /\ obj.val.task_units[2].allotment_id = "a2"
    /\ Contains(text, "TASKUNIT/OLD SQN/ICAO:NA//")
    /\ Contains(text, "TASKUNIT/3 SQN/ICAO:LEBL//")

\* the segment keyword of a line: the text before its first "/", or the
\* whole line when it is a section marker ("//RESOURCES")
Keyword(line) ==
    IF StartsWith(line, "//") THEN line
    ELSE LET slashes == {i \in 1..Len(line) : Ch(line, i) = "/"}
         IN  IF slashes = {} THEN line
             ELSE SubSeq(line, 1, (CHOOSE i \in slashes : \A j \in slashes : i <= j) - 1)

Keywords(lines) == [i \in 1..Len(lines) |-> Keyword(lines[i])]

\* the ATO has no allotment, task unit, support entry or spin
OnlyHeaderAndFooter(ato) ==
    /\ ato.allotments = <<>>
    /\ ato.task_units = <<>>
    /\ ato.support_control = <<>>
    /\ ato.spins = <<>>

\* the header of the export literal example, with the defaults of Header for
\* the message-type id and the heading
IsExampleHeader(header) ==
    /\ header.operation_identification_data = "OP1"
    /\ header.msg_text_format_identifier = "ATO"
    /\ header.msg_originator = "AOC"
    /\ header.msg_serial = "001"
    /\ header.msg_month = "JAN"
    /\ header.msg_qualifier = ""
    /\ header.acknowledgement_required = "NO"
    /\ header.heading = "TASKING"

\* C11: for an ATO whose allotments, task units, support entries and spins
\* are empty, export_ato_to_text emits the lines OPER, MSGID, AKNLDG,
\* TIMEFRAM, HEADING and DECL, in that order and nothing else; with operation
\* id OP1, originator AOC, serial 001, month JAN, no qualifier and
\* acknowledgement NO the lines are OPER/OP1//, MSGID/ATO/AOC/001/JAN//,
\* AKNLDG/NO// and HEADING/TASKING//, and the TIMEFRAM and DECL lines carry
\* a placeholder (NA, N/A) in the place of each blank value.
C11_HeaderOnlyExport ==
    (op = "export_ato_to_text" /\ OnlyHeaderAndFooter(obj.val))
        => LET lines == SplitLines(text)
               header == obj.val.header
               footer == obj.val.footer
           IN  /\ exc = ""
               /\ Keywords(lines)
                      = <<"OPER", "MSGID", "AKNLDG", "TIMEFRAM", "HEADING", "DECL">>
               /\ IsExampleHeader(header)
                      => /\ lines[1] = "OPER/OP1//"
                         /\ lines[2] = "MSGID/ATO/AOC/001/JAN//"
                         /\ lines[3] = "AKNLDG/NO//"
                         /\ lines[5] = "HEADING/TASKING//"
               /\ lines[4] = "TIMEFRAM/FROM:"
                                 \o (IF Truthy(header.timeframe_from)
                                     THEN header.timeframe_from ELSE "NA")
                                 \o "/TO:"
                                 \o (IF Truthy(header.timeframe_to)
                                     THEN header.timeframe_to ELSE "NA")
                                 \o "//"
               /\ lines[6] = "DECL/AUTH:"
                                 \o (IF Truthy(footer.authority)
                                     THEN footer.authority ELSE "N/A")
                                 \o ";PREP:"
                                 \o (IF Truthy(footer.prepared_by)
                                     THEN footer.prepared_by ELSE "N/A")
                                 \o ";REL:"
                                 \o (IF Truthy(footer.release_instructions)
                                     THEN footer.release_instructions ELSE "N/A")
                                 \o "//"

\* the export literal example was exported, with both DTGs and the whole
\* footer blank
C11_Witness ==
    /\ op = "export_ato_to_text"
    /\ OnlyHeaderAndFooter(obj.val)
    /\ IsExampleHeader(obj.val.header)
    /\ obj.val.header.timeframe_from = ""
    /\ obj.val.header.timeframe_to = ""
    /\ obj.val.footer = Footer
    /\ SplitLines(text)
           = <<"OPER/OP1//", "MSGID/ATO/AOC/001/JAN//", "AKNLDG/NO//",
               "TIMEFRAM/FROM:NA/TO:NA//", "HEADING/TASKING//",
               "DECL/AUTH:N/A;PREP:N/A;REL:N/A//">>

\* the section markers, in the order of the sections
Markers == <<"//RESOURCES", "//TASKUNITS", "//SUPPORT", "//SPINS">>

\* the list the k-th section is made from
SourceList(ato, k) ==
    CASE k = 1 -> ato.allotments
      [] k = 2 -> ato.task_units
      [] k = 3 -> ato.support_control
      [] k = 4 -> ato.spins

\* the places of the lines equal to m
PlacesOf(lines, m) == {i \in 1..Len(lines) : lines[i] = m}

\* the place of the only line equal to m
PlaceOf(lines, m) == CHOOSE i \in 1..Len(lines) : lines[i] = m

\* the place where the section that starts at the k-th marker ends: the next
\* marker of the text, or its last line
EndOfSection(lines, k) ==
    LET later == {i \in 1..Len(lines) :
                     /\ i > PlaceOf(lines, Markers[k])
                     /\ \/ i = Len(lines)
                        \/ \E j \in (k + 1)..Len(Markers) : lines[i] = Markers[j]}
    IN  CHOOSE i \in later : \A j \in later : i <= j

\* the lines between the k-th marker and the end of its section
SectionBody(lines, k) ==
    SubSeq(lines, PlaceOf(lines, Markers[k]) + 1, EndOfSection(lines, k) - 1)

TaskUnitKeywords ==
    {"TASKUNIT", "AMSNDAT", "MSNACFT", "GTGTLOC", "CONTROLA", "AMPN", "NARR"}

\* the body of the k-th section holds the entries of its list, in list order
SectionBodyOk(ato, lines, k) ==
    LET body == SectionBody(lines, k)
        list == SourceList(ato, k)
    IN  CASE k = 1 ->
                /\ Len(body) = Len(list)
                /\ \A i \in 1..Len(body) :
                       body[i] = "RESASSET/" \o formatted_fragment(list[i]) \o "//"
          [] k = 2 ->
                LET heads == SelectSeq(body, IsTaskUnitLine)
                IN  /\ \A i \in 1..Len(body) : Keyword(body[i]) \in TaskUnitKeywords
                    /\ IsTaskUnitLine(body[1])
                    /\ Len(heads) = Len(list)
                    /\ \A i \in 1..Len(heads) :
                           heads[i] = TaskUnitLine(list[i], ato.allotments)
          [] k = 3 ->
                /\ Len(body) = Len(list)
                /\ \A i \in 1..Len(body) :
                       StartsWith(body[i],
                                  "CONTROLA/"
                                  \o (IF Truthy(list[i].role) THEN list[i].role ELSE "NA")
                                  \o ";")
          [] k = 4 ->
                /\ Len(body) = Len(list)
                /\ \A i \in 1..Len(body) :
                       StartsWith(body[i],
                                  "NARR/"
                                  \o (IF Truthy(list[i].title) THEN list[i].title
                                      ELSE "SPIN")
                                  \o ":")

\* C12: in the exported text each section marker (//RESOURCES, //TASKUNITS,
\* //SUPPORT, //SPINS) occurs once when its list is non-empty and never
\* otherwise; the five header lines come first, then the sections in the
\* order resources, task units, support, spins, each marker right before
\* the lines of its list, which come in list order (one RESASSET line per
\* allotment); the DECL line is the last line.
C12_SectionOrder ==
    op = "export_ato_to_text"
        => LET lines == SplitLines(text)
               ato == obj.val
               present == {k \in 1..Len(Markers) : SourceList(ato, k) # <<>>}
           IN  /\ \A k \in 1..Len(Markers) :
                      Cardinality(PlacesOf(lines, Markers[k]))
                          = (IF k \in present THEN 1 ELSE 0)
               /\ Len(lines) >= 6
               /\ Keywords(SubSeq(lines, 1, 5))
                      = <<"OPER", "MSGID", "AKNLDG", "TIMEFRAM", "HEADING">>
               /\ Keyword(lines[Len(lines)]) = "DECL"
               /\ IF present = {} THEN Len(lines) = 6
                  ELSE \E k \in present : lines[6] = Markers[k]
               /\ \A j, k \in present :
                      j < k => PlaceOf(lines, Markers[j]) < PlaceOf(lines, Markers[k])
               /\ \A k \in present : SectionBodyOk(ato, lines, k)

\* a document with an allotment, a task unit, two support entries and two
\* spins was exported
C12_Witness ==
    /\ op = "export_ato_to_text"
    /\ Len(obj.val.allotments) = 1
    /\ Len(obj.val.task_units) = 1
    /\ Len(obj.val.support_control) = 2
    /\ obj.val.support_control[1] # obj.val.support_control[2]
    /\ Len(obj.val.spins) = 2
    /\ LET lines == SplitLines(text)
       IN  /\ PlaceOf(lines, "//RESOURCES") = 6
           /\ PlaceOf(lines, "//TASKUNITS") = 8
           /\ PlaceOf(lines, "//SUPPORT") + 3 = PlaceOf(lines, "//SPINS")
           /\ PlaceOf(lines, "//SPINS") + 3 = Len(lines)

\* C13: for every task unit the exported text holds seven lines, in the
\* order TASKUNIT, AMSNDAT, MSNACFT, GTGTLOC, CONTROLA, AMPN, NARR; the AMPN
\* and the NARR line are there whatever the task unit holds and carry "-"
\* when the amplification or the narrative is blank.
C13_SevenLinesPerTaskUnit ==
    (op = "export_ato_to_text" /\ obj.val.task_units # <<>>)
        => LET body == SectionBody(SplitLines(text), 2)
               units == obj.val.task_units
           IN  /\ Len(body) = 7 * Len(units)
               /\ \A i \in 1..Len(units) :
                      /\ Keywords(SubSeq(body, 7 * i - 6, 7 * i))
                             = <<"TASKUNIT", "AMSNDAT", "MSNACFT", "GTGTLOC",
                                 "CONTROLA", "AMPN", "NARR">>
                      /\ body[7 * i - 1]
                             = "AMPN/"
                               \o (IF Truthy(units[i].amplification)
                                   THEN units[i].amplification ELSE "-")
                               \o "//"
                      /\ body[7 * i]
                             = "NARR/"
                               \o (IF Truthy(units[i].narrative)
                                   THEN units[i].narrative ELSE "-")
                               \o "//"

\* C14: the MSGID line of the exported text is "MSGID/", then the non-empty
\* values among the message-type id, the originator, the serial, the
\* upper-cased month and the qualifier joined by "/", then "//": a blank
\* value leaves nothing in the line.
C14_MsgidNonEmptyParts ==
    op = "export_ato_to_text"
        => LET header == obj.val.header
               parts == <<header.msg_text_format_identifier,
                          header.msg_originator,
                          header.msg_serial,
                          IF Truthy(header.msg_month) THEN Upper(header.msg_month)
                          ELSE "",
                          header.msg_qualifier>>
           IN  SplitLines(text)[2] = "MSGID/" \o Join("/", NonEmpty(parts)) \o "//"

IsMsnacftLine(line) == StartsWith(line, "MSNACFT/")

\* C15: the first field of the MSNACFT line of a task unit is the task
\* unit's own number_of_aircraft whenever that is not blank, whatever the
\* asset count of the linked allotment; when it is blank and the reference
\* resolves, the field is the asset count of the linked allotment (with the
\* placeholder NA for a blank asset count).
C15_AircraftCountFallback ==
    op = "export_ato_to_text"
        => LET lines == SelectSeq(SplitLines(text), IsMsnacftLine)
               units == obj.val.task_units
               allotments == obj.val.allotments
           IN  /\ Len(lines) = Len(units)
               /\ \A i \in 1..Len(units) :
                      LET own == units[i].msnacft.number_of_aircraft
                          linked == Lookup(allotments, units[i].allotment_id)
                      IN  /\ Truthy(own)
                                => StartsWith(lines[i], "MSNACFT/" \o own \o "/ACTYP:")
                          /\ (~Truthy(own) /\ Resolves(allotments, units[i].allotment_id))
                                => StartsWith(lines[i],
                                              "MSNACFT/"
                                              \o (IF Truthy(linked.asset_count)
                                                  THEN linked.asset_count ELSE "NA")
                                              \o "/ACTYP:")

\* a document was exported whose first task unit asks for 2 aircraft of an
\* allotment of 4 and whose second names no count and is linked to an
\* allotment of 4
C15_Witness ==
    /\ op = "export_ato_to_text"
    /\ Len(obj.val.task_units) = 2
    /\ obj.val.task_units[1].msnacft.number_of_aircraft = "2"
    /\ obj.val.task_units[2].msnacft.number_of_aircraft = ""
    /\ \A i \in 1..2 :
           /\ Resolves(obj.val.allotments, obj.val.task_units[i].allotment_id)
           /\ Lookup(obj.val.allotments, obj.val.task_units[i].allotment_id).asset_count
                  = "4"
    /\ Contains(text, "MSNACFT/2/ACTYP:F18/")
    /\ Contains(text, "MSNACFT/4/ACTYP:F18/")

\* one scalar of a segment: the text that precedes it and its value
Fld(pre, v) == [pre |-> pre, val |-> v]

\* a scalar the segment shows in upper case
FldUpper(pre, v) == [pre |-> pre, val |-> IF Truthy(v) THEN Upper(v) ELSE v]

\* the segment line that shows every blank scalar as the placeholder ph
RenderLine(keyword, sep, fields, ph) ==
    keyword \o "/"
    \o Join(sep, [i \in 1..Len(fields) |->
                     fields[i].pre
                     \o (IF Truthy(fields[i].val) THEN fields[i].val ELSE ph)])
    \o "//"

Placeholders == {"NA", "-"}

TimeframFields(header) ==
    <<Fld("FROM:", header.timeframe_from), Fld("TO:", header.timeframe_to)>>

ResassetFields(a) ==
    <<Fld("UNIT:", a.unit_designator), FldUpper("ICAO:", a.icao_base_code),
      Fld("", a.asset_count), Fld("ACTYP:", a.aircraft_type_model)>>

\* the allotment the task unit is linked to, or the default one
LinkedOrBlank(unit, allotments) ==
    IF Resolves(allotments, unit.allotment_id)
    THEN Lookup(allotments, unit.allotment_id) ELSE Allotment("")

TaskunitFields(unit, allotments) ==
    <<Fld("", IF Resolves(allotments, unit.allotment_id)
              THEN LinkedOrBlank(unit, allotments).unit_designator
              ELSE unit.unit_name),
      FldUpper("ICAO:", LinkedOrBlank(unit, allotments).icao_base_code)>>

AmsndatFields(unit) ==
    LET x == unit.amsndat
    IN  <<Fld("", x.mission_number), Fld("", x.amc_mission_number),
          Fld("", x.package_identification), Fld("", x.mission_commander),
          Fld("", x.primary_mission_type), Fld("", x.secondary_mission_type),
          Fld("", x.alert_status),
          FldUpper("DEPLOC:", x.icao_departure_location),
          FldUpper("ARRLOC:", x.icao_recovery_base)>>

MsnacftFields(unit, allotments) ==
    LET x == unit.msnacft
        iff(mode, v) == Fld("", IF Truthy(v) THEN mode \o v ELSE v)
    IN  <<Fld("", IF Truthy(x.number_of_aircraft) THEN x.number_of_aircraft
                  ELSE LinkedOrBlank(unit, allotments).asset_count),
          Fld("ACTYP:", IF Resolves(allotments, unit.allotment_id)
                        THEN LinkedOrBlank(unit, allotments).aircraft_type_model
                        ELSE unit.aircraft_type),
          Fld("", x.aircraft_call_sign), Fld("", x.primary_configuration_code),
          Fld("", x.secondary_configuration_code),
          iff("1", x.iff_mode1), iff("2", x.iff_mode2), iff("3", x.iff_mode3)>>

GtgtlocFields(unit) ==
    LET x == unit.gtgtloc
    IN  <<Fld("", x.designator), Fld("", x.day_time_month_tasked),
          FldUpper("NET:", x.not_earlier_than), FldUpper("NLT:", x.not_later_than),
          Fld("", x.target_facility_name), Fld("ID:", x.target_identifier),
          Fld("", x.target_type), Fld("", x.dmpi_description),
          Fld("DMPID:", x.dmpi_lat_long), Fld("", x.geodetic_datum),
          Fld("", x.dmpi_elevation), Fld("", x.component_target_identifier)>>

ControlaFields(unit) ==
    LET x == unit.controla
    IN  <<Fld("", x.agency_type), Fld("", x.call_sign),
          Fld("PFREQ:", x.primary_frequency), Fld("SFREQ:", x.secondary_frequency),
          Fld("NAME:", x.report_in_point)>>

SupportFields(x) ==
    <<Fld("", x.role), Fld("", x.unit), Fld("FREQ:", x.frequency),
      Fld("POC:", x.contact), Fld("NOTES:", x.notes)>>

SpinFields(x) == <<Fld("", x.title), Fld("", x.content)>>

DeclFields(footer) ==
    <<Fld("AUTH:", footer.authority), Fld("PREP:", footer.prepared_by),
      Fld("REL:", footer.release_instructions)>>

\* the lines of `body` whose keyword is kw
LinesOf(body, kw) ==
    LET Is(line) == Keyword(line) = kw
    IN  SelectSeq(body, Is)

\* with one of the two placeholders, the lines are the segments of the
\* given fields
OnePlaceholder(lines, keyword, sep, fields) ==
    \E ph \in Placeholders :
        /\ Len(lines) = Len(fields)
        /\ \A i \in 1..Len(lines) :
               lines[i] = RenderLine(keyword, sep, fields[i], ph)

\* C16: in the exported text every segment type (TIMEFRAM, RESASSET,
\* TASKUNIT, AMSNDAT, MSNACFT, GTGTLOC, CONTROLA, support CONTROLA, spins
\* NARR, DECL) shows all its blank scalars with one placeholder, which is
\* "NA" or "-": no segment type mixes the two or shows a third text.
C16_OnePlaceholderPerSegment ==
    op = "export_ato_to_text"
        => LET ato == obj.val
               lines == SplitLines(text)
               units == ato.task_units
               n == Len(units)
               body(k) == IF SourceList(ato, k) = <<>> THEN <<>>
                          ELSE SectionBody(lines, k)
               spins == LET Is(line) == StartsWith(line, "NARR/")
                        IN  SelectSeq(body(4), Is)
           IN  /\ OnePlaceholder(<<lines[4]>>, "TIMEFRAM", "/",
                                 <<TimeframFields(ato.header)>>)
               /\ OnePlaceholder(body(1), "RESASSET", "/",
                                 [i \in 1..Len(ato.allotments) |->
                                     ResassetFields(ato.allotments[i])])
               /\ OnePlaceholder(LinesOf(body(2), "TASKUNIT"), "TASKUNIT", "/",
                                 [i \in 1..n |-> TaskunitFields(units[i], ato.allotments)])
               /\ OnePlaceholder(LinesOf(body(2), "AMSNDAT"), "AMSNDAT", "/",
                                 [i \in 1..n |-> AmsndatFields(units[i])])
               /\ OnePlaceholder(LinesOf(body(2), "MSNACFT"), "MSNACFT", "/",
                                 [i \in 1..n |-> MsnacftFields(units[i], ato.allotments)])
               /\ OnePlaceholder(LinesOf(body(2), "GTGTLOC"), "GTGTLOC", "/",
                                 [i \in 1..n |-> GtgtlocFields(units[i])])
               /\ OnePlaceholder(LinesOf(body(2), "CONTROLA"), "CONTROLA", "/",
                                 [i \in 1..n |-> ControlaFields(units[i])])
               /\ OnePlaceholder(body(3), "CONTROLA", ";",
                                 [i \in 1..Len(ato.support_control) |->
                                     SupportFields(ato.support_control[i])])
               /\ OnePlaceholder(spins, "NARR", ":",
                                 [i \in 1..Len(ato.spins) |-> SpinFields(ato.spins[i])])
               /\ OnePlaceholder(<<lines[Len(lines)]>>, "DECL", ";",
                                 <<DeclFields(ato.footer)>>)

\* the calls that load a dict
LoadOps ==
    {c \o ".from_dict" : c \in {"Header", "Allotment", "TaskUnit", "ATO"}
                                \cup DOMAIN Segments \cup DOMAIN Flats}
    \cup {"ATO.to_dict/from_dict"}

\* C17: every from_dict, ATO.validate and export_ato_to_text leave their
\* input as it was: after cls.from_dict(d) the dict d, nested dicts
\* included, holds the keys and values it held before the call, and after
\* validate or export the ATO is the ATO of before the call.
C17_InputsUnchanged ==
    /\ [](op \in LoadOps => after = data)
    /\ [][(Validate \/ Export) => obj' = obj]_vars

\* C18: ATO.validate never raises: for every ATO that ATO.from_dict makes of
\* a persisted record, blank, null, malformed or unknown leaves included,
\* it returns a list of violations.
C18_ValidateNeverRaises ==
    op = "ATO.validate" => exc = ""

\* the identities of the documents of a file, in the order of the file
DocIds(file) == [i \in 1..Len(file) |-> file[i]["id"]]

\* seq without its i-th element
Without(seq, i) == SubSeq(seq, 1, i - 1) \o SubSeq(seq, i + 1, Len(seq))

\* the editor holds a document
Editing == editor_data # NoneObj

\* load_all, get and to_dict/from_dict hand every stored document back
\* under the identity it is stored with, and the document of the editor
\* goes through from_dict/to_dict under its own
IdentityKeptByLoads ==
    LET used == IdsInUse(Session)
        Kept(atos) ==
            \A i \in 1..Len(store) :
                /\ atos[i].id = store[i]["id"]
                /\ ATO_to_dict(atos[i])["id"] = store[i]["id"]
                /\ get(store, store[i]["id"], used).id = store[i]["id"]
        Ok(r) == ~Raised(r) /\ Kept(r.atos)
        Made(ato) == ~Raised(ato) /\ ATO_to_dict(ato)["id"] = editor_data["id"]
    IN  /\ Ok(load_all(store, used))
        /\ Editing =>
               Made(ATO_from_dict(editor_data,
                                  FreshUuids(used, Len(editor_data["allotments"]))))

\* what one run does to the identities: the document of the editor keeps
\* its own through every edit; a document enters the editor new or under
\* the identity it is stored with; a save stores the document of the
\* editor under its identity, in place when the store holds it; in the list
\* view the store changes by a duplication, which adds one document whose
\* identity no stored document has, or by a deletion
IdentityKeptByRun ==
    LET ids == DocIds(store)
        ids2 == DocIds(store')
    IN  /\ (Editing /\ Editing') => editor_data'["id"] = editor_data["id"]
        /\ (~Editing /\ Editing') =>
               \/ editor_data'["id"] \in Range(ids)
               \/ editor_data' = ATO_to_dict(create_empty(editor_data'["id"]))
        /\ (store' # store /\ view = "edit") =>
               ids2 = IF editor_data["id"] \in Range(ids) THEN ids
                      ELSE Append(ids, editor_data["id"])
        /\ (store' # store /\ view = "list") =>
               \/ /\ Len(ids2) = Len(ids) + 1
                  /\ SubSeq(ids2, 1, Len(ids)) = ids
                  /\ ids2[Len(ids2)] \notin Range(ids)
               \/ \E i \in 1..Len(ids) : ids2 = Without(ids, i)

\* C19: document identity is stable: through create_empty, the edits of
\* the editor, to_dict/from_dict, upsert, get and load_all a document keeps
\* the identity it was created with; only the duplication (clone) makes a
\* document of another identity, which differs from the original's.
C19_IdentityStable ==
    /\ []IdentityKeptByLoads
    /\ [][IdentityKeptByRun]_vars

\* a document was created, renamed in the editor, saved and duplicated: the
\* store holds it and its copy under two identities
C19_Witness ==
    /\ Len(store) = 2
    /\ store[1]["name"] = "OP NORTE"
    /\ store[2]["name"] = "OP NORTE (Copia)"
    /\ store[1]["id"] # store[2]["id"]

\* the identities of the allotments of a document, None where a persisted
\* allotment has none
AllotmentIds(d) ==
    [i \in 1..Len(Get(d, "allotments", <<>>)) |-> Get(d["allotments"][i], "id", None)]

Distinct(seq) == \A i, j \in 1..Len(seq) : i # j => seq[i] # seq[j]

\* the allotment identities of the editor are pairwise distinct, and so
\* are those of every stored document once loaded, of its to_dict and of
\* its clone; a load hands a persisted identity back and gives an allotment
\* persisted without one an identity that nothing at hand holds
AllotmentIdsKeptByLoads ==
    LET used == IdsInUse(Session)
        Fresh(u) == Truthy(u) /\ u \notin used
        Cloned(ato, us) == AllotmentIds(clone(ato, us[1], Tail(us))) = AllotmentIds(ato)
        Kept(stored, ato) ==
            /\ Len(ato.allotments) = Len(stored)
            /\ Distinct(AllotmentIds(ato))
            /\ AllotmentIds(ATO_to_dict(ato)) = AllotmentIds(ato)
            /\ Cloned(ato, FreshUuids(used, Len(stored) + 1))
            /\ \A k \in 1..Len(stored) :
                   IF stored[k] # None THEN ato.allotments[k].id = stored[k]
                   ELSE Fresh(ato.allotments[k].id)
        Ok(r) ==
            /\ ~Raised(r)
            /\ \A i \in 1..Len(store) : Kept(AllotmentIds(store[i]), r.atos[i])
    IN  /\ Ok(load_all(store, used))
        /\ Editing => Distinct(AllotmentIds(editor_data))

\* what one run does to the allotment identities: an edit keeps them, but
\* for the one of the allotment it removes and the new one of the allotment
\* it adds; a document enters the editor with the identities it has in the
\* store; a save stores the identities the editor holds
AllotmentIdsKeptByRun ==
    LET ids == AllotmentIds(editor_data)
        ids2 == AllotmentIds(editor_data')
        At(file, ato_id) == file[CHOOSE i \in 1..Len(file) : file[i]["id"] = ato_id]
        Persisted(stored, loaded) ==
            /\ Len(loaded) = Len(stored)
            /\ \A k \in 1..Len(stored) : stored[k] # None => loaded[k] = stored[k]
    IN  /\ (Editing /\ Editing') =>
               \/ ids2 = ids
               \/ \E i \in 1..Len(ids) : ids2 = Without(ids, i)
               \/ /\ Len(ids2) = Len(ids) + 1
                  /\ SubSeq(ids2, 1, Len(ids)) = ids
                  /\ ids2[Len(ids2)] \notin IdsInUse(Session) \cup {None, ""}
        /\ (~Editing /\ Editing' /\ editor_data'["id"] \in Range(DocIds(store))) =>
               Persisted(AllotmentIds(At(store, editor_data'["id"])), ids2)
        /\ (store' # store /\ view = "edit") =>
               AllotmentIds(At(store', editor_data["id"])) = ids

\* C20: allotment identity: in every ATO reached through the editor's add
\* and remove of allotments, from_dict/to_dict, clone and the load and
\* upsert of the store, the allotment identities are pairwise distinct, an
\* allotment keeps its identity across every edit and every load, and an
\* allotment persisted without an identity gets a fresh one when loaded.
C20_AllotmentIdentity ==
    /\ []AllotmentIdsKeptByLoads
    /\ [][AllotmentIdsKeptByRun]_vars

\* a stored document with two allotments is back in the editor, where its
\* first allotment was removed and another added: the one that stayed has
\* the identity it is stored with, the new one an identity of its own
C20_Witness ==
    /\ Editing
    /\ Len(store) = 1
    /\ store[1]["id"] = editor_data["id"]
    /\ Len(AllotmentIds(store[1])) = 2
    /\ Len(AllotmentIds(editor_data)) = 2
    /\ AllotmentIds(editor_data)[1] = AllotmentIds(store[1])[2]
    /\ AllotmentIds(editor_data)[2] \notin Range(AllotmentIds(store[1]))

\* the first call on an ATOStorage made over no file or over a file of zero
\* bytes is over
FirstUse == opened \in {"absent", "empty"} /\ uses = 1 /\ op # "ATOStorage"

\* C21: over an absent file and over a file of zero bytes alike, the first
\* call on the ATOStorage behaves as on the empty collection: load_all
\* returns [], get returns None, and upsert and delete raise nothing.
C21_AbsentOrEmptyIsEmpty ==
    FirstUse =>
        /\ exc = ""
        /\ returned.call = "load_all" => returned.value = <<>>
        /\ returned.call = "get" => returned.value = NoneObj

\* the violations of the three enumerated fields
AckMessage == "El campo AKNLDG debe ser 'YES' o 'NO'."

DesignatorMessage(idx) ==
    "La Task Unit #" \o ToString(idx)
    \o " debe seleccionar PRIMARY/ALTERNATE DESIGNATOR (P o S)."

AgencyMessage(idx) ==
    "La Task Unit #" \o ToString(idx) \o " debe seleccionar CRC o AEW en CONTROLA."

\* validate returned msg among its violations
InErrors(msg) == \E i \in 1..Len(errors) : errors[i] = msg

\* validate reports each enumerated field exactly when it is none of its
\* codes, compared as written (exact) or without regard to case
EnumeratedInErrors(exact) ==
    /\ InErrors(AckMessage)
           <=> ~OneOf(obj.val.header.acknowledgement_required, {"YES", "NO"}, exact)
    /\ \A i \in 1..Len(obj.val.task_units) :
        /\ InErrors(DesignatorMessage(i))
               <=> ~OneOf(obj.val.task_units[i].gtgtloc.designator, {"P", "S"}, exact)
        /\ InErrors(AgencyMessage(i))
               <=> ~OneOf(obj.val.task_units[i].controla.agency_type,
                          {"CRC", "AEW"}, exact)

\* C22 as stated: ATO.validate reports a violation unless the
\* acknowledgement flag is exactly "YES" or "NO", unless each task unit's
\* designator is exactly "P" or "S", and unless each task unit's control
\* agency type is exactly "CRC" or "AEW"; "yes", "p" and "crc" are reported.
C22_EnumeratedExact ==
    (op = "ATO.validate" /\ exc = "") => EnumeratedInErrors(TRUE)

\* C22 amended: ATO.validate reports a violation unless the acknowledgement
\* flag, upper-cased, is "YES" or "NO", unless each task unit's designator,
\* upper-cased, is "P" or "S", and unless each task unit's control agency
\* type, upper-cased, is "CRC" or "AEW"; "yes", "p" and "crc" are accepted,
\* a value that is none of the codes in any case is reported.
C22_EnumeratedAnyCase ==
    (op = "ATO.validate" /\ exc = "") => EnumeratedInErrors(FALSE)

\* validate ran on a task unit with designator "p" and reported no
\* designator violation for it
C22_Witness ==
    /\ op = "ATO.validate"
    /\ exc = ""
    /\ obj.val.task_units # <<>>
    /\ obj.val.task_units[1].gtgtloc.designator = "p"
    /\ ~InErrors(DesignatorMessage(1))

\* the two violations of a header date
DateRequired(label) == "La fecha '" \o label \o "' es obligatoria."

DateFormat(label) ==
    "La fecha '" \o label
    \o "' debe estar en formato DDHHmmZMMMYYYY (ej. 060600ZMAR2002)."

\* the places of errors that are about the header date `label`
DatePlaces(label) ==
    {i \in 1..Len(errors) : StartsWith(errors[i], "La fecha '" \o label \o "'")}

\* how many times validate returned msg
Times(msg) == Cardinality({i \in 1..Len(errors) : errors[i] = msg})

\* what validate returned about the header date `label` of value v
DateReported(label, v) ==
    /\ DateRequired(label) # DateFormat(label)
    /\ Times(DateRequired(label)) = (IF ~Truthy(v) THEN 1 ELSE 0)
    /\ Times(DateFormat(label)) = (IF Truthy(v) /\ ~StrptimeOk(v) THEN 1 ELSE 0)
    /\ Cardinality(DatePlaces(label))
           = Times(DateRequired(label)) + Times(DateFormat(label))

\* C23: for each of timeframe_from and timeframe_to ATO.validate returns
\* exactly one "required" violation when the value is missing, exactly one
\* "format" violation, a different message, when the value is present and
\* does not parse by "%d%H%MZ%b%Y", and none when it parses; what it returns
\* about FROM comes before what it returns about TO.
C23_HeaderDates ==
    (op = "ATO.validate" /\ exc = "")
        => /\ DateReported("TIMEFRAM - FROM", obj.val.header.timeframe_from)
           /\ DateReported("TIMEFRAM - TO", obj.val.header.timeframe_to)
           /\ \A i \in DatePlaces("TIMEFRAM - FROM"), j \in DatePlaces("TIMEFRAM - TO") :
                  i < j

\* validate ran on a header whose FROM does not parse and whose TO is
\* missing: it returned the format violation of FROM, then the required
\* violation of TO
C23_Witness ==
    /\ op = "ATO.validate"
    /\ exc = ""
    /\ obj.val.header.timeframe_from = "BAD"
    /\ obj.val.header.timeframe_to = ""
    /\ errors = <<DateFormat("TIMEFRAM - FROM"), DateRequired("TIMEFRAM - TO")>>

\* the places of errors that are about the allotment idx
AllotmentPlaces(idx) ==
    {j \in 1..Len(errors) : Contains(errors[j], "Allotment #" \o ToString(idx) \o " ")}

\* the four rules of an allotment hold of a
WellFormed(a) == \A k \in AllotmentRuleNames : AllotmentRuleOk(a, k)

IcaoCaseMessage(idx) ==
    "El ICAO del Allotment #" \o ToString(idx) \o " debe estar en mayusculas."

AllotmentsJudged ==
    (op = "ATO.validate" /\ exc = "")
        => /\ \A i \in 1..Len(obj.val.allotments) :
               LET a == obj.val.allotments[i]
               IN  /\ AllotmentPlaces(i) = {} <=> WellFormed(a)
                   /\ (NonBlank(a.icao_base_code)
                          /\ a.icao_base_code # Upper(a.icao_base_code))
                         => InErrors(IcaoCaseMessage(i))
           /\ (/\ Len(obj.val.allotments) = 1
               /\ WellFormed(obj.val.allotments[1])
               /\ obj.val.task_units = <<>>)
                 => \A j \in 1..Len(errors) : ~Contains(errors[j], "Allotment")

\* ATO.validate leaves the document as it is
ValidateKeeps == op' = "ATO.validate" => obj' = obj

\* C24: ATO.validate returns no violation about an allotment if and only if
\* its unit designator is non-blank, its ICAO code non-blank and equal to
\* its upper-case form, its asset count non-blank and all digits, and its
\* aircraft type/model non-blank; a lower-case ICAO code is reported and the
\* allotment left as it is; a document with one such allotment and no task
\* unit yields no violation about allotments.
C24_AllotmentRules ==
    /\ []AllotmentsJudged
    /\ [][ValidateKeeps]_vars

\* validate ran on two allotments, the first well-formed, the second with
\* the ICAO code "lebl": it returned the one violation about the case of the
\* second and left the code as it was
C24_Witness ==
    /\ op = "ATO.validate"
    /\ exc = ""
    /\ Len(obj.val.allotments) = 2
    /\ WellFormed(obj.val.allotments[1])
    /\ obj.val.allotments[2].icao_base_code = "lebl"
    /\ AllotmentPlaces(1) = {}
    /\ {errors[j] : j \in AllotmentPlaces(2)} = {IcaoCaseMessage(2)}

\* the str v is its own upper-case form
IsUpper(v) == v # None => v = Upper(v)

\* C25: after ATO.from_dict the ICAO base code of every allotment and, of
\* every task unit, the departure and recovery ICAO codes, the ground-target
\* designator and the control agency type are upper-case, whatever the case
\* of the values in the dict.
C25_UpperCasedAtIngestion ==
    (op = "ATO.from_dict" /\ exc = "")
        => /\ \A i \in 1..Len(ret.val.allotments) :
                  IsUpper(ret.val.allotments[i].icao_base_code)
           /\ \A i \in 1..Len(ret.val.task_units) :
                  LET t == ret.val.task_units[i]
                  IN  /\ IsUpper(t.amsndat.icao_departure_location)
                      /\ IsUpper(t.amsndat.icao_recovery_base)
                      /\ IsUpper(t.gtgtloc.designator)
                      /\ IsUpper(t.controla.agency_type)

\* the two header dates: the field, its legacy key and its label in validate
LegacyDates ==
    {[field |-> "timeframe_from", legacy |-> "effective_time_utc",
      label |-> "TIMEFRAM - FROM"],
     [field |-> "timeframe_to", legacy |-> "expiry_time_utc",
      label |-> "TIMEFRAM - TO"]}

\* the header dict the last from_dict was given, <<>> if none
HeaderGiven ==
    IF op = "Header.from_dict" THEN data
    ELSE IF op = "ATO.from_dict" /\ "header" \in DOMAIN data THEN data["header"]
    ELSE <<>>

\* the header the last from_dict returned
HeaderReturned == IF op = "Header.from_dict" THEN ret.val ELSE ret.val.header

\* from_dict took the date f of the header dict h from its legacy key, and
\* the value there is no ISO timestamp
LegacyMalformed(h, f) ==
    /\ ~Truthy(Get(h, f.field, None))
    /\ Truthy(Get(h, f.legacy, None))
    /\ ~IsoOk(h[f.legacy])

\* migration succeeds and passes the raw value through
MalformedPassedThrough ==
    \A f \in LegacyDates :
        LegacyMalformed(HeaderGiven, f)
            => exc = "" /\ HeaderReturned[f.field] = HeaderGiven[f.legacy]

\* ATO.validate runs on the ATO that ATO.from_dict has just returned
ValidatesLoaded ==
    op = "ATO.from_dict" /\ exc = "" /\ op' = "ATO.validate" /\ exc' = ""

MalformedReportedAlways ==
    ValidatesLoaded =>
        \A f \in LegacyDates :
            LegacyMalformed(HeaderGiven, f)
                => /\ InErrors(DateFormat(f.label))'
                   /\ ~InErrors(DateRequired(f.label))'

MalformedReportedUnlessDtg ==
    ValidatesLoaded =>
        \A f \in LegacyDates :
            LegacyMalformed(HeaderGiven, f)
                => /\ InErrors(DateFormat(f.label))'
                       <=> ~StrptimeOk(HeaderGiven[f.legacy])
                   /\ ~InErrors(DateRequired(f.label))'

\* C26 as stated: when Header.from_dict takes a date from effective_time_utc
\* or expiry_time_utc and the value there does not parse as an ISO
\* timestamp, migration succeeds, the timeframe field equals the raw value,
\* and ATO.validate then reports the field with the format violation and
\* not with the required one.
C26_MalformedDateReported ==
    /\ []MalformedPassedThrough
    /\ [][MalformedReportedAlways]_vars

\* C26 amended: ..., migration succeeds, the timeframe field equals the raw
\* value, and ATO.validate then reports the field with the format violation
\* unless the raw value parses by "%d%H%MZ%b%Y", when it reports nothing
\* about the field; it never reports it with the required violation.
C26_MalformedDatePassed ==
    /\ []MalformedPassedThrough
    /\ [][MalformedReportedUnlessDtg]_vars

\* validate ran on a loaded header whose FROM is the legacy value "manana"
\* as it was, and returned the format violation of FROM
C26_Witness ==
    /\ op = "ATO.validate"
    /\ exc = ""
    /\ obj.val.header.timeframe_from = "manana"
    /\ InErrors(DateFormat("TIMEFRAM - FROM"))
    /\ ~InErrors(DateRequired("TIMEFRAM - FROM"))

\* the document on screen at the last step of the editor: what the widgets
\* of the step hold, loaded
Edited(s, now) ==
    LET Then(d) ==
            ATO_from_dict(d, FreshUuids(IdsInUse(s), Len(Get(d, "allotments", <<>>))))
    IN  Then(render_step(s, Untouched, 0, FALSE, now))

\* r is the session a press of "Guardar ATO" leaves when doc is on screen
SaveJudged(doc, r, y) ==
    /\ ~Raised(r)
    /\ IF FailingRules(doc, y, FALSE) # {}
       THEN /\ r.store = store
            /\ r.validation_errors # <<>>
            /\ r.validation_errors = validate(doc, y)
            /\ r.view = "edit"
            /\ r.editor_data # NoneObj
       ELSE /\ get(r.store, doc.id, {}) = doc
            /\ r.view = "list"
            /\ r.editor_data = NoneObj
            /\ r.validation_errors = <<>>

\* C27: a press of "Guardar ATO" writes to the store if and only if the
\* document on screen breaks no rule of ATO.validate: when it breaks one the
\* stored list is as it was, the violations are kept for display and the
\* editor stays in the edit view; when it breaks none the document is
\* stored under its identity, the editor is back in the list view and its
\* editor data is cleared.
C27_SaveIffValid ==
    (view = "edit" /\ editor_step = total_steps)
        => \A now \in Nows :
               SaveJudged(Edited(Session, now),
                          show_editor_view(Session, Untouched, 0, FALSE,
                                           "Guardar ATO", now),
                          now.year)

\* "Guardar ATO" was pressed on a new document that breaks a rule: the
\* editor shows the violations at its last step and the store lacks the
\* document
C27_Witness ==
    /\ view = "edit"
    /\ editor_step = total_steps
    /\ validation_errors # <<>>
    /\ editor_data["id"] \notin ListedIds

\* C28: for a fixed ATO, ATO.validate returns the same list whenever it is
\* called: two calls on the same document, in whatever years they run,
\* return the same violations (the NET and NLT checks give a value the same
\* verdict in every calendar year).
C28_ValidateIgnoresDate ==
    [][(/\ op = "ATO.validate" /\ exc = ""
        /\ op' = "ATO.validate" /\ exc' = ""
        /\ obj' = obj)
           => errors' = errors]_vars

\* the list `file` with the dict d put under its identifier: in the place
\* of the element that has it, at the end when none has
Put(file, d) ==
    IF \E i \in 1..Len(file) : file[i]["id"] = d["id"]
    THEN [i \in 1..Len(file) |-> IF file[i]["id"] = d["id"] THEN d ELSE file[i]]
    ELSE Append(file, d)

\* the list `file` without the elements of identifier ato_id
Removed(file, ato_id) ==
    LET Keep(d) == d["id"] # ato_id
    IN  SelectSeq(file, Keep)

\* caller c ends its upsert or delete in this step
Writes(c, name) == calls[c].op = name /\ calls'[c] = Idle

\* every document upserted last under its identifier is in the form the
\* loaders give (any = FALSE), or whatever it is (any = TRUE)
AsLoaded(any) ==
    any \/ \A u \in DocumentIds : log[u] = NoneObj \/ Canonical(log[u])

\* no call has begun while another was under way
Serialized == ~overlap

KeyedState(any) ==
    Serialized =>
        /\ Distinct(DocIds(store))
        /\ (returned.call = "get" /\ AsLoaded(any))
               => returned.value = log[returned.ato_id]

KeyedStep(any) ==
    \A c \in Callers :
        /\ (Serialized /\ Writes(c, "upsert") /\ exc' = ""
               /\ AsLoaded(any) /\ (any \/ Canonical(calls[c].ato)))
               => store' = Put(store, ATO_to_dict(calls[c].ato))
        /\ (Serialized /\ Writes(c, "delete") /\ exc' = "" /\ AsLoaded(any))
               => store' = Removed(store, calls[c].ato_id)

\* C29 as stated: from the empty collection on, after any sequence of
\* upsert and delete calls that do not overlap, the collection holds at most
\* one document per identity; upsert of a stored identity replaces that
\* document in place and leaves every other document and the order as they
\* were, upsert of a new identity appends, delete removes exactly the
\* documents of the identity, and get returns the last document upserted
\* under the identity, None after its deletion.
C29_KeyedStore ==
    /\ []KeyedState(TRUE)
    /\ [][KeyedStep(TRUE)]_vars

\* C29 amended: the same, for documents upserted in the form the loaders
\* give them (upper-case month, flag and ICAO codes, trimmed counts, text
\* leaves); at most one document per identity holds of any documents.
C29_KeyedStoreAsLoaded ==
    /\ []KeyedState(FALSE)
    /\ [][KeyedStep(FALSE)]_vars

\* after calls that did not overlap the file holds two documents, and get
\* has just returned the first, as it was upserted last
C29_Witness ==
    /\ Serialized
    /\ Len(store) = 2
    /\ returned.call = "get"
    /\ returned.ato_id = store[1]["id"]
    /\ returned.value = log[returned.ato_id]
    /\ AsLoaded(FALSE)

\* the list `file` holds the document ato, as the loader returns it
Holds(file, ato) ==
    \E i \in 1..Len(file) :
        ATO_from_dict(file[i], <<>>) = ATO_from_dict(ATO_to_dict(ato), <<>>)

\* caller c ends an upsert whose _read came before another caller stored
\* the document x of another identity: what c read did not hold x, the file
\* is what c read with x put in
StaleUpsert(c, x) ==
    /\ Writes(c, "upsert")
    /\ exc' = ""
    /\ x.id # calls[c].ato.id
    /\ log[x.id] = x
    /\ ~Holds(calls[c].read, x)
    /\ store = Put(calls[c].read, ATO_to_dict(x))

\* the second of two interleaved upserts loses the document of the first
LostUpdate ==
    \A c \in Callers, x \in Documents :
        StaleUpsert(c, x) => Holds(store', calls[c].ato) /\ ~Holds(store', x)

\* after calls run one after the other the file holds every document
\* upserted and not deleted since
NothingLost ==
    Serialized => \A u \in DocumentIds : log[u] # NoneObj => Holds(store, log[u])

\* C30: upsert is a read-modify-write of the whole collection that is not
\* atomic: when two upserts of documents of different identities interleave
\* so that both load the collection before either saves it, the collection
\* after both holds the document of the one that saved last and not the
\* other's; when the calls run one after the other it holds both.
C30_LostUpdate ==
    /\ []NothingLost
    /\ [][LostUpdate]_vars

\* two upserts of different identities overlapped from the empty
\* collection and both are over: the file holds one document only
C30_Witness ==
    /\ overlap
    /\ \A c \in Callers : ~InCall(c)
    /\ uses = 2
    /\ \A u \in DocumentIds : log[u] # NoneObj
    /\ Len(store) = 1

====
